---- MODULE Spec2Model ----
(***************************************************************************)
(* Model of eslint-plugin-react-snob: the AST classification helpers and   *)
(* the visitor callbacks of its rules.  A rule is a state machine: its     *)
(* state is the per-traversal memo created in create(context) plus the     *)
(* diagnostics handed to context.report; its actions are the visitor       *)
(* callbacks.  Strings are sequences of one-character strings, AST nodes   *)
(* are records carrying the typescript-estree field names.                 *)
(***************************************************************************)
EXTENDS Integers, Sequences, FiniteSets, TLC

VARIABLES
    rule,                 \* name of the rule whose create() built the state
    input,                \* the nodes of the file under analysis
    pc,                   \* position of the traversal
    lastVisited,          \* the node handed to the last callback
    reports,              \* sequence of diagnostics given to context.report
    checkedNodes,         \* no-complex-jsx-conditions: Set of containers
    derivedConditionals,  \* require-derived-conditional-prefix: Set<string>
    variableNodes,        \* require-derived-conditional-prefix: Map name -> id node
    usedAsEventHandlers,  \* consistent-event-handler-naming: Set<string>
    allFunctions          \* consistent-event-handler-naming: Map name -> node

vars == <<rule, input, pc, lastVisited, reports, checkedNodes,
          derivedConditionals, variableNodes, usedAsEventHandlers, allFunctions>>

(***************************************************************************)
(* Strings                                                                 *)
(***************************************************************************)
Lowers == <<"a","b","c","d","e","f","g","h","i","j","k","l","m",
            "n","o","p","q","r","s","t","u","v","w","x","y","z">>
Uppers == <<"A","B","C","D","E","F","G","H","I","J","K","L","M",
            "N","O","P","Q","R","S","T","U","V","W","X","Y","Z">>

IsLowerChar(c) == \E i \in 1..Len(Lowers) : Lowers[i] = c
IsUpperChar(c) == \E i \in 1..Len(Uppers) : Uppers[i] = c
IsDigitChar(c) == c \in {"0","1","2","3","4","5","6","7","8","9"}

\* String.prototype.toUpperCase / toLowerCase on one character

toUpperCase(s) ==
    LET upper(c) == IF IsLowerChar(c)
                    THEN Uppers[CHOOSE i \in 1..Len(Lowers) : Lowers[i] = c] ELSE c
    IN  [i \in 1..Len(s) |-> upper(s[i])]
toLowerCase(s) ==
    LET lower(c) == IF IsUpperChar(c)
                    THEN Lowers[CHOOSE i \in 1..Len(Uppers) : Uppers[i] = c] ELSE c
    IN  [i \in 1..Len(s) |-> lower(s[i])]

\* s.slice(n) with n counted from 0
SliceFrom(s, n) == IF n >= Len(s) THEN <<>> ELSE SubSeq(s, n + 1, Len(s))
\* s.slice(0, Len(s) - n)
DropLast(s, n) == IF n >= Len(s) THEN <<>> ELSE SubSeq(s, 1, Len(s) - n)

startsWith(s, p) == Len(p) <= Len(s) /\ SubSeq(s, 1, Len(p)) = p
endsWith(s, p) == Len(p) <= Len(s) /\ SubSeq(s, Len(s) - Len(p) + 1, Len(s)) = p

\* name.charAt(0).toUpperCase() + name.slice(1)
CapitalizeFirst(s) ==
    IF s = <<>> THEN <<>> ELSE toUpperCase(<<s[1]>>) \o SliceFrom(s, 1)
\* name.charAt(0).toLowerCase() + name.slice(1)
LowerFirst(s) ==
    IF s = <<>> THEN <<>> ELSE toLowerCase(<<s[1]>>) \o SliceFrom(s, 1)

\* /^[A-Z]/.test(s)
StartsUpper(s) == Len(s) > 0 /\ IsUpperChar(s[1])
\* /^p[A-Z]/.test(s)
PrefixThenUpper(s, p) == startsWith(s, p) /\ StartsUpper(SliceFrom(s, Len(p)))

Null == [type |-> "Null"]

(***************************************************************************)
(* AST nodes (typescript-estree)                                           *)
(***************************************************************************)
Id(name) == [type |-> "Identifier", name |-> name]
Logical(op, l, r) == [type |-> "LogicalExpression", operator |-> op, left |-> l, right |-> r]
Assign(op, l, r) == [type |-> "AssignmentExpression", operator |-> op, left |-> l, right |-> r]
Cond(t, c, a) == [type |-> "ConditionalExpression", test |-> t, consequent |-> c, alternate |-> a]
Binary(op, l, r) == [type |-> "BinaryExpression", operator |-> op, left |-> l, right |-> r]
Unary(op, arg) == [type |-> "UnaryExpression", operator |-> op, argument |-> arg]
Member(obj, prop, computed) ==
    [type |-> "MemberExpression", object |-> obj, property |-> prop, computed |-> computed]
Call(callee, args) == [type |-> "CallExpression", callee |-> callee, arguments |-> args]
Spread(arg) == [type |-> "SpreadElement", argument |-> arg]
Template(exprs) == [type |-> "TemplateLiteral", expressions |-> exprs]
BoolLit(b) == [type |-> "Literal", typeofValue |-> "boolean", value |-> b]
StrLit(s) == [type |-> "Literal", typeofValue |-> "string", value |-> s]
JSXElement == [type |-> "JSXElement"]
JSXEmptyExpression == [type |-> "JSXEmptyExpression"]

(***************************************************************************)
(* utils/ast-traversal: structural complexity analyzer                     *)
(***************************************************************************)
\* every AssignmentExpression operator of the language ends with "="
OperatorEndsWithEquals(op) == op \in {"=", "+=", "-=", "||=", "&&=", "??="}

RECURSIVE countLogicalOperators(_)
RECURSIVE countLogicalOperatorsInArguments(_)
\* the closure counter `count` is returned as the value of traverse
countLogicalOperators(expr) ==
    CASE expr.type = "LogicalExpression" ->
            1 + countLogicalOperators(expr.left) + countLogicalOperators(expr.right)
      [] expr.type = "AssignmentExpression"
           /\ OperatorEndsWithEquals(expr.operator) /\ expr.operator # "=" ->
            1 + countLogicalOperators(expr.left) + countLogicalOperators(expr.right)
      [] expr.type = "ConditionalExpression" ->
            countLogicalOperators(expr.test) + countLogicalOperators(expr.consequent)
              + countLogicalOperators(expr.alternate)
      [] expr.type = "BinaryExpression" ->
            countLogicalOperators(expr.left) + countLogicalOperators(expr.right)
      [] expr.type = "UnaryExpression" -> countLogicalOperators(expr.argument)
      [] expr.type = "MemberExpression" ->
            countLogicalOperators(expr.object)
              + (IF expr.computed THEN countLogicalOperators(expr.property) ELSE 0)
      [] expr.type = "CallExpression" -> countLogicalOperatorsInArguments(expr.arguments)
      [] OTHER -> 0

\* expr.arguments.forEach(arg => arg.type !== SpreadElement && traverse(arg))
countLogicalOperatorsInArguments(args) ==
    IF args = <<>> THEN 0
    ELSE (IF Head(args).type # "SpreadElement" THEN countLogicalOperators(Head(args)) ELSE 0)
           + countLogicalOperatorsInArguments(Tail(args))

RECURSIVE hasTemplateLiteral(_)
hasTemplateLiteral(expr) ==
    CASE expr.type = "TemplateLiteral" -> TRUE
      [] expr.type = "LogicalExpression" ->
            hasTemplateLiteral(expr.left) \/ hasTemplateLiteral(expr.right)
      [] expr.type = "UnaryExpression" -> hasTemplateLiteral(expr.argument)
      [] expr.type = "BinaryExpression" ->
            hasTemplateLiteral(expr.left) \/ hasTemplateLiteral(expr.right)
      [] expr.type = "ConditionalExpression" ->
            hasTemplateLiteral(expr.test) \/ hasTemplateLiteral(expr.consequent)
              \/ hasTemplateLiteral(expr.alternate)
      [] expr.type = "MemberExpression" ->
            hasTemplateLiteral(expr.object)
              \/ (IF expr.computed THEN hasTemplateLiteral(expr.property) ELSE FALSE)
      [] expr.type = "CallExpression" ->
            \E i \in 1..Len(expr.arguments) :
                expr.arguments[i].type # "SpreadElement" /\ hasTemplateLiteral(expr.arguments[i])
      [] OTHER -> FALSE

RECURSIVE hasLogicalAssignment(_)
hasLogicalAssignment(expr) ==
    CASE expr.type = "AssignmentExpression"
           /\ expr.operator \in {"||=", "&&=", "??="} -> TRUE
      [] expr.type = "LogicalExpression" ->
            hasLogicalAssignment(expr.left) \/ hasLogicalAssignment(expr.right)
      [] OTHER -> FALSE

\* the while loop of isComplexOperand: number of MemberExpression nodes on the
\* object spine
RECURSIVE MemberDepth(_)
MemberDepth(node) ==
    IF node.type = "MemberExpression" THEN 1 + MemberDepth(node.object) ELSE 0

\* mutant: a call counts as complex even without arguments
isComplexOperand_AnyCall(node) ==
    CASE node.type = "MemberExpression" -> MemberDepth(node) > 1
      [] node.type = "CallExpression" -> TRUE
      [] node.type = "BinaryExpression" -> TRUE
      [] node.type = "LogicalExpression" -> TRUE
      [] OTHER -> FALSE

isComplexOperand(node) ==
    CASE node.type = "MemberExpression" -> MemberDepth(node) > 1
      [] node.type = "CallExpression" -> Len(node.arguments) > 0
      [] node.type = "BinaryExpression" -> TRUE
      [] node.type = "LogicalExpression" -> TRUE
      [] OTHER -> FALSE

(***************************************************************************)
(* rules/no-complex-jsx-conditions                                         *)
(***************************************************************************)
RECURSIVE hasComplexTernaryCondition(_)
hasComplexTernaryCondition(node) ==
    LET testLogicalCount == countLogicalOperators(node.test)
        consequentComplex ==
            IF node.consequent.type = "ConditionalExpression"
            THEN hasComplexTernaryCondition(node.consequent) ELSE FALSE
        alternateComplex ==
            IF node.alternate.type = "ConditionalExpression"
            THEN hasComplexTernaryCondition(node.alternate) ELSE FALSE
    IN testLogicalCount > 0 \/ consequentComplex \/ alternateComplex

RECURSIVE traverseLogical(_)
traverseLogical(expr) ==
    IF expr.type = "LogicalExpression"
    THEN traverseLogical(expr.left) \/ traverseLogical(expr.right)
    ELSE isComplexOperand(expr)

hasComplexOperandsInChain(node) == traverseLogical(node)

isComplexCondition(node) ==
    LET logicalCount == countLogicalOperators(node)
    IN  IF logicalCount > 2 THEN TRUE
        ELSE IF node.type = "ConditionalExpression" THEN hasComplexTernaryCondition(node)
        ELSE IF node.type = "LogicalExpression" /\ logicalCount >= 2
             THEN hasComplexOperandsInChain(node)
        ELSE IF logicalCount >= 1 /\ hasTemplateLiteral(node) THEN TRUE
        ELSE IF hasLogicalAssignment(node) THEN TRUE
        ELSE FALSE


\* a slot of the file: a JSX attribute (with its value) or a child container;
\* the identity of a container node is the index of its slot
JSXAttributeNode(name, value) == [type |-> "JSXAttribute", name |-> name, value |-> value]
JSXContainer(expr) == [type |-> "JSXExpressionContainer", expression |-> expr]
JSXIdentifier(name) == [type |-> "JSXIdentifier", name |-> name]

ContainerAt(i) ==
    IF input[i].type = "JSXExpressionContainer" THEN input[i]
    ELSE IF input[i].type = "JSXAttribute" /\ input[i].value.type = "JSXExpressionContainer"
         THEN input[i].value
    ELSE Null

\* checkExpression(node): the reports and the memo after the call
checkExpressionReports(nid, node) ==
    IF nid \in checkedNodes THEN reports
    ELSE IF node.expression.type = "JSXEmptyExpression" THEN reports
    ELSE IF isComplexCondition(node.expression)
         THEN Append(reports, [messageId |-> "complexCondition", node |-> nid])
    ELSE reports

\* mutant: the container is not remembered as checked
checkExpressionChecked_Forget(nid) == checkedNodes

checkExpressionChecked(nid) == checkedNodes \cup {nid}


\* JSXAttribute(node)
ComplexJSXAttribute(i) ==
    /\ rule = "no-complex-jsx-conditions"
    /\ <<"JSXAttribute", i>> \in pc
    /\ input[i].type = "JSXAttribute"
    /\ pc' = pc \ {<<"JSXAttribute", i>>}
    /\ lastVisited' = [callback |-> "JSXAttribute", index |-> i]
    /\ IF input[i].value.type = "JSXExpressionContainer"
       THEN /\ reports' = checkExpressionReports(i, input[i].value)
            /\ checkedNodes' = checkExpressionChecked(i)
       ELSE UNCHANGED <<reports, checkedNodes>>
    /\ UNCHANGED <<rule, input, derivedConditionals, variableNodes, usedAsEventHandlers,
                   allFunctions>>

\* JSXExpressionContainer(node)
ComplexJSXExpressionContainer(i) ==
    /\ rule = "no-complex-jsx-conditions"
    /\ <<"JSXExpressionContainer", i>> \in pc
    /\ ContainerAt(i) # Null
    /\ pc' = pc \ {<<"JSXExpressionContainer", i>>}
    /\ lastVisited' = [callback |-> "JSXExpressionContainer", index |-> i]
    /\ reports' = checkExpressionReports(i, ContainerAt(i))
    /\ checkedNodes' = checkExpressionChecked(i)
    /\ UNCHANGED <<rule, input, derivedConditionals, variableNodes, usedAsEventHandlers,
                   allFunctions>>

\* the callbacks the traversal engine owes for a file
ComplexCallbacks(file) ==
    {<<"JSXAttribute", i>> : i \in {j \in DOMAIN file : file[j].type = "JSXAttribute"}}
      \cup {<<"JSXExpressionContainer", i>> :
              i \in {j \in DOMAIN file :
                        \/ file[j].type = "JSXExpressionContainer"
                        \/ /\ file[j].type = "JSXAttribute"
                           /\ file[j].value.type = "JSXExpressionContainer"}}

(***************************************************************************)
(* Expressions given to the complexity rule                                *)
(***************************************************************************)
MaxMemberDepth == 3
MaxArgs == 1

IdA == Id(<<"a">>)
IdB == Id(<<"b">>)
IdF == Id(<<"f">>)

RECURSIVE MemberChain(_)
\* a, a.b, a.b.b, ...
MemberChain(d) == IF d = 0 THEN IdA ELSE Member(MemberChain(d - 1), IdB, FALSE)
\* operands, other leaves, chains of one to three operators over them, each
\* of them inside one node of another kind, and chains over those
ComplexExpressions ==
    LET CallWith(n) == Call(IdF, [i \in 1..n |-> IdA])   \* f(), f(a), f(a, a), ...
        Operands ==
            {MemberChain(d) : d \in 0..MaxMemberDepth}
              \cup {CallWith(n) : n \in 0..MaxArgs}
              \cup {Binary(">", IdA, IdB), Template(<<>>), Assign("||=", IdA, IdB)}
        OtherLeaves ==
            {JSXElement, Unary("!", IdA), Assign("+=", IdA, IdB), Assign("??=", IdA, IdB),
             [type |-> "ChainExpression", expression |-> MemberChain(2)],
             StrLit(<<"s">>)}
        Chain1 ==
            {Logical(op, x, y) :
                op \in {"&&", "||", "??"}, x \in Operands, y \in Operands \cup OtherLeaves}
        Chain2 ==
            {Logical("&&", Logical(o1, x, y), z) :
                o1 \in {"&&", "||"}, x \in Operands, y \in Operands,
                z \in Operands \cup {JSXElement}}
              \cup {Logical(o2, x, Logical("&&", y, z)) :
                o2 \in {"&&", "||"}, x \in Operands, y \in Operands, z \in Operands}
        Operands3 ==
            {IdA, MemberChain(2), CallWith(1), Template(<<>>), Assign("||=", IdA, IdB)}
        Chain3 ==
            {Logical("&&", Logical("&&", Logical("&&", w, x), y), z) :
                w \in Operands3, x \in Operands3, y \in Operands3, z \in Operands3}
              \cup {Logical("||", Logical("&&", w, x), Logical("&&", y, z)) :
                w \in Operands3, x \in Operands3, y \in Operands3, z \in Operands3}
        Wrap(e) ==
            {Unary("!", e), Call(IdF, <<e>>), Call(IdF, <<Spread(e)>>),
             Cond(e, IdA, JSXElement), Cond(IdA, e, IdB), Cond(IdA, IdB, e),
             Binary("===", e, IdA), Member(IdA, e, TRUE),
             [type |-> "ArrayExpression", elements |-> <<e>>],
             Assign("=", IdA, e), Assign("&&=", IdA, e), Template(<<e>>)}
        Wrapped ==
            UNION {Wrap(e) : e \in Operands \cup OtherLeaves
                                    \cup {c \in Chain1 : c.operator = "&&"}}
        WrappedLeaves == UNION {Wrap(e) : e \in Operands \cup OtherLeaves}
        ChainOverWrapped ==
            {Logical("&&", IdA, w) : w \in WrappedLeaves}
              \cup {Logical("&&", Logical("||", IdA, w), IdB) : w \in WrappedLeaves}
              \cup {Logical("&&", IdA, Logical("&&", c, IdB)) : c \in OtherLeaves}
    IN  Operands \cup OtherLeaves \cup {JSXEmptyExpression}
          \cup Chain1 \cup Chain2 \cup Chain3 \cup Wrapped \cup ChainOverWrapped


(***************************************************************************)
(* rules/require-derived-conditional-prefix                                *)
(***************************************************************************)
\* mutant: the underscore is always prepended
suggestUnderscorePrefix_Always(name) == <<"_">> \o name

suggestUnderscorePrefix(name) == IF startsWith(name, <<"_">>) THEN name ELSE <<"_">> \o name
\* mutant: no name counts as prefixed
hasUnderscorePrefix_Never(name) == FALSE

hasUnderscorePrefix(name) == startsWith(name, <<"_">>)

ComparisonOperators == {"==", "===", "!=", "!==", "<", ">", "<=", ">="}

\* /^(is|has|can|should|will|does|did|was|were|am|are|be)[A-Z]/
BooleanishName(name) ==
    \E p \in {<<"i","s">>, <<"h","a","s">>, <<"c","a","n">>, <<"s","h","o","u","l","d">>,
              <<"w","i","l","l">>, <<"d","o","e","s">>, <<"d","i","d">>, <<"w","a","s">>,
              <<"w","e","r","e">>, <<"a","m">>, <<"a","r","e">>, <<"b","e">>} :
        PrefixThenUpper(name, p)

RECURSIVE isLikelyBooleanExpression(_)
\* mutant: a ternary is likely boolean only when both branches are
isLikelyBooleanExpression_BothBranches(node) ==
    CASE node.type = "UnaryExpression" -> node.operator = "!"
      [] node.type = "BinaryExpression" -> node.operator \in ComparisonOperators
      [] node.type = "ConditionalExpression" ->
            isLikelyBooleanExpression(node.consequent)
              /\ isLikelyBooleanExpression(node.alternate)
      [] node.type = "LogicalExpression" ->
            isLikelyBooleanExpression(node.left) /\ isLikelyBooleanExpression(node.right)
      [] node.type = "Literal" -> node.typeofValue = "boolean"
      [] node.type = "Identifier" -> BooleanishName(node.name)
      [] OTHER -> FALSE

\* isLikelyBooleanExpression (utils/boolean-utils; the rule file has the same text)
isLikelyBooleanExpression(node) ==
    CASE node.type = "UnaryExpression" -> node.operator = "!"
      [] node.type = "BinaryExpression" -> node.operator \in ComparisonOperators
      [] node.type = "ConditionalExpression" ->
            isLikelyBooleanExpression(node.consequent)
              \/ isLikelyBooleanExpression(node.alternate)
      [] node.type = "LogicalExpression" ->
            isLikelyBooleanExpression(node.left) /\ isLikelyBooleanExpression(node.right)
      [] node.type = "Literal" -> node.typeofValue = "boolean"
      [] node.type = "Identifier" -> BooleanishName(node.name)
      [] OTHER -> FALSE

\* isDerivedBooleanExpression
isDerivedBooleanExpression(node) ==
    CASE node.type = "LogicalExpression" ->
            isLikelyBooleanExpression(node.left) /\ isLikelyBooleanExpression(node.right)
      [] node.type = "UnaryExpression" -> node.operator = "!"
      [] node.type = "BinaryExpression" -> node.operator \in ComparisonOperators
      [] node.type = "ConditionalExpression" ->
            isLikelyBooleanExpression(node.consequent)
              /\ isLikelyBooleanExpression(node.alternate)
      [] OTHER -> FALSE

\* mutant: only a literal on the right is a fallback
isStringFallbackPattern_RightOnly(node) ==
    node.right.type = "Literal" /\ node.right.typeofValue = "string"

isStringFallbackPattern(node) ==
    IF node.right.type = "Literal" /\ node.right.typeofValue = "string" THEN TRUE
    ELSE IF node.left.type = "Literal" /\ node.left.typeofValue = "string" THEN TRUE
    ELSE FALSE

\* mutant: logical operators alone do not make an expression complex
isComplexDerivedExpression_DerivedOnly(node) == isDerivedBooleanExpression(node)

isComplexDerivedExpression(node) ==
    IF isDerivedBooleanExpression(node) THEN TRUE
    ELSE IF countLogicalOperators(node) > 0
         THEN IF node.type = "LogicalExpression" /\ node.operator = "||"
                   /\ isStringFallbackPattern(node)
              THEN FALSE ELSE TRUE
    ELSE FALSE

\* the position of the visited identifier inside an ancestor
Hole == [type |-> "Hole"]

\* the child nodes `for (const key in node)` finds, the parent link left out
ChildNodes(node) ==
    CASE node.type \in {"LogicalExpression", "AssignmentExpression", "BinaryExpression"} ->
            <<node.left, node.right>>
      [] node.type = "ConditionalExpression" -> <<node.test, node.consequent, node.alternate>>
      [] node.type \in {"UnaryExpression", "SpreadElement"} -> <<node.argument>>
      [] node.type = "MemberExpression" -> <<node.object, node.property>>
      [] node.type = "CallExpression" -> <<node.callee>> \o node.arguments
      [] node.type = "TemplateLiteral" -> node.expressions
      [] node.type = "ArrayExpression" -> node.elements
      [] node.type = "ChainExpression" -> <<node.expression>>
      [] OTHER -> <<>>

\* mutant: only the node itself is looked at
containsJSX_Shallow(node) == node.type = "JSXElement" \/ node.type = "JSXFragment"

\* containsJSX on a tree (no node is reached twice, so `visited` never hits)
RECURSIVE containsJSX(_)
containsJSX(node) ==
    IF node.type = "JSXElement" \/ node.type = "JSXFragment" THEN TRUE
    ELSE \E k \in DOMAIN ChildNodes(node) : containsJSX(ChildNodes(node)[k])

\* one iteration of the while loop of checkIdentifierInJSXContext: TRUE when
\* one of its five tests reaches reportDerivedConditional for ancestor k
\* (x.left === node holds only for the identifier's own parent)
JSXContextAt(anc, k) ==
    LET parent == anc[k]
        expression == IF k = 1 THEN Hole ELSE anc[k - 1]
        isNode(child, level) == level = 1 /\ child = Hole
    IN  \/ /\ parent.type = "JSXExpressionContainer"
           /\ \/ /\ expression.type = "LogicalExpression" /\ expression.operator = "&&"
                 /\ isNode(expression.left, k - 1) /\ containsJSX(expression.right)
              \/ /\ expression.type = "ConditionalExpression"
                 /\ isNode(expression.test, k - 1)
                 /\ (containsJSX(expression.consequent) \/ containsJSX(expression.alternate))
        \/ /\ parent.type = "JSXAttribute"
           /\ parent.name.type = "JSXIdentifier"
           /\ parent.name.name \in {<<"c","o","n","d","i","t","i","o","n">>,
                                    <<"w","h","e","n">>, <<"i","f">>}
        \/ /\ parent.type = "ConditionalExpression" /\ isNode(parent.test, k)
           /\ (containsJSX(parent.consequent) \/ containsJSX(parent.alternate))
        \/ /\ parent.type = "LogicalExpression" /\ parent.operator = "&&"
           /\ isNode(parent.left, k) /\ containsJSX(parent.right)


\* reportDerivedConditional(node, name)
reportDerivedConditional(node, name) ==
    IF hasUnderscorePrefix(name) THEN reports
    ELSE Append(reports,
                [messageId |-> "derivedConditionalShouldStartWithUnderscore", node |-> node,
                 data |-> [name |-> name, suggested |-> suggestUnderscorePrefix(name)]])

\* checkIdentifierInJSXContext(node): the reports after the call
checkIdentifierInJSXContext(node) ==
    LET variableName == node.name IN
    IF variableName \notin derivedConditionals THEN reports
    ELSE IF /\ \E k \in DOMAIN node.ancestors : JSXContextAt(node.ancestors, k)
            /\ variableName \in DOMAIN variableNodes
         THEN reportDerivedConditional(variableNodes[variableName], variableName)
    ELSE reports

MaxVisits == 3


\* Identifier(node); input is the file as traversed so far
DerivedIdentifier(node) ==
    /\ rule = "require-derived-conditional-prefix"
    /\ pc < MaxVisits
    /\ node.type = "Identifier"
    /\ pc' = pc + 1
    /\ input' = Append(input, node)
    /\ lastVisited' = [callback |-> "Identifier", index |-> pc + 1]
    /\ reports' = checkIdentifierInJSXContext(node)
    /\ UNCHANGED <<derivedConditionals, variableNodes>>
    /\ UNCHANGED <<rule, checkedNodes, usedAsEventHandlers, allFunctions>>

\* VariableDeclarator(node); the identity of node.id is the number of the visit
DerivedVariableDeclarator(node) ==
    /\ rule = "require-derived-conditional-prefix"
    /\ pc < MaxVisits
    /\ node.type = "VariableDeclarator"
    /\ pc' = pc + 1
    /\ input' = Append(input, node)
    /\ lastVisited' = [callback |-> "VariableDeclarator", index |-> pc + 1]
    /\ IF node.id.type # "Identifier" \/ node.init = Null
       THEN UNCHANGED <<derivedConditionals, variableNodes>>
       ELSE IF isComplexDerivedExpression(node.init)
            THEN /\ derivedConditionals' = derivedConditionals \cup {node.id.name}
                 /\ variableNodes' =
                       [n \in DOMAIN variableNodes \cup {node.id.name} |->
                           IF n = node.id.name THEN pc + 1 ELSE variableNodes[n]]
            ELSE UNCHANGED <<derivedConditionals, variableNodes>>
    /\ UNCHANGED reports
    /\ UNCHANGED <<rule, checkedNodes, usedAsEventHandlers, allFunctions>>

\* the declarators of the traversed files (names ok, up, _ok) and their
\* identifiers, in and out of gating positions.  An Identifier node carries
\* its ancestors, the parent first; in each ancestor the child on the path
\* to the identifier is the Hole.
DerivedNodes ==
    LET VariableDeclaratorNode(id, init) ==
            [type |-> "VariableDeclarator", id |-> id, init |-> init]
        IdentifierAt(name, ancestors) ==
            [type |-> "Identifier", name |-> name, ancestors |-> ancestors]
        or == Logical("||", IdA, IdB)
        isA == Id(<<"i","s","A">>)
        inits == {or, Logical("||", IdA, StrLit(<<"d">>)),
                  Logical("&&", isA, Unary("!", isA)), Logical("&&", IdA, StrLit(<<"d">>)),
                  IdA, Call(IdF, <<Logical("&&", IdA, IdB)>>), Unary("!", IdA), Null,
                  Logical("||", StrLit(<<"d">>), IdA), Logical("||", isA, StrLit(<<"d">>)),
                  Logical("||", Logical("&&", isA, Unary("!", isA)), StrLit(<<"d">>)),
                  Logical("||", StrLit(<<"d">>), Unary("!", IdA)),
                  Logical("&&", IdA, IdB)}
        attr(name) == JSXAttributeNode(JSXIdentifier(name), Hole)
        namespacedIf ==
            JSXAttributeNode([type |-> "JSXNamespacedName",
                              namespace |-> JSXIdentifier(<<"x">>),
                              name |-> JSXIdentifier(<<"i","f">>)], Hole)
        andJSX == <<Logical("&&", Hole, JSXElement), JSXContainer(Hole)>>
        andId == <<Logical("&&", Hole, IdB), JSXContainer(Hole)>>
        ancestors ==
            {andJSX, andId, <<>>,
             <<Logical("&&", Hole, Call(IdF, <<[type |-> "JSXFragment"]>>))>>,
             <<Cond(Hole, JSXElement, IdA), JSXContainer(Hole)>>,
             <<Cond(Hole, IdA, JSXElement)>>,
             <<JSXContainer(Hole), attr(<<"w","h","e","n">>)>>,
             <<JSXContainer(Hole), attr(<<"c","o","n","d","i","t","i","o","n">>)>>,
             <<Member(IdA, Hole, FALSE), Unary("!", Hole), JSXContainer(Hole),
               attr(<<"i","f">>)>>,
             <<Logical("||", Hole, JSXElement), JSXContainer(Hole)>>,
             <<Logical("&&", IdA, Hole), JSXContainer(Hole)>>,
             <<Unary("!", Hole), Logical("&&", Hole, JSXElement), JSXContainer(Hole)>>,
             <<Cond(IdA, Hole, JSXElement), JSXContainer(Hole)>>,
             <<Cond(Hole, StrLit(<<"a">>), StrLit(<<"b">>)), JSXContainer(Hole),
               attr(<<"c","l","a","s","s">>)>>,
             <<JSXContainer(Hole), namespacedIf>>,
             <<VariableDeclaratorNode(Hole, Logical("||", IdA, IdB))>>}
    IN  [declarators |->
            {VariableDeclaratorNode(Id(<<"o","k">>), i) : i \in inits}
              \cup {VariableDeclaratorNode(Id(n), i) :
                      n \in {<<"u","p">>, <<"_","o","k">>}, i \in {or, IdA}}
              \cup {VariableDeclaratorNode([type |-> "ObjectPattern"], or)},
         occurrences |->
            {IdentifierAt(<<"o","k">>, a) : a \in ancestors}
              \cup {IdentifierAt(n, a) :
                      n \in {<<"u","p">>, <<"_","o","k">>}, a \in {andJSX, andId}}]

InitDerived ==
    /\ rule = "require-derived-conditional-prefix"
    /\ input = <<>>
    /\ pc = 0
    /\ lastVisited = [callback |-> "none", index |-> 0]
    /\ reports = <<>>
    /\ checkedNodes = {}
    /\ derivedConditionals = {}
    /\ variableNodes = <<>>
    /\ usedAsEventHandlers = {}
    /\ allFunctions = <<>>

NextDerived ==
    \/ \E node \in DerivedNodes.declarators : DerivedVariableDeclarator(node)
    \/ \E node \in DerivedNodes.occurrences : DerivedIdentifier(node)

SpecDerived == InitDerived /\ [][NextDerived]_vars

(***************************************************************************)
(* A traversal of a file with several attributes and containers            *)
(***************************************************************************)
NumSlots == 2

\* user && data && !isLoading && !error
FourOperands ==
    Logical("&&", Logical("&&", Logical("&&", IdA, IdB), Unary("!", IdA)), Unary("!", IdB))

ComplexFiles ==
    LET slots ==
            {JSXAttributeNode(JSXIdentifier(<<"c">>), JSXContainer(FourOperands)),
             JSXAttributeNode(JSXIdentifier(<<"c">>), JSXContainer(Logical("&&", IdA, IdB))),
             JSXAttributeNode(JSXIdentifier(<<"c">>), StrLit(<<"s">>)),
             JSXContainer(FourOperands),
             JSXContainer(JSXEmptyExpression)}
    IN  {<<JSXContainer(e)>> : e \in ComplexExpressions}
          \cup {<<JSXAttributeNode(JSXIdentifier(<<"c">>), JSXContainer(e))>> :
                  e \in ComplexExpressions}
          \cup UNION {[1..n -> slots] : n \in 1..NumSlots}

InitComplex ==
    /\ rule = "no-complex-jsx-conditions"
    /\ input \in ComplexFiles
    /\ pc = ComplexCallbacks(input)
    /\ lastVisited = [callback |-> "none", index |-> 0]
    /\ reports = <<>>
    /\ checkedNodes = {}
    /\ derivedConditionals = {}
    /\ variableNodes = <<>>
    /\ usedAsEventHandlers = {}
    /\ allFunctions = <<>>

NextComplex ==
    \/ \E i \in DOMAIN input : ComplexJSXAttribute(i)
    \/ \E i \in DOMAIN input : ComplexJSXExpressionContainer(i)

SpecComplex == InitComplex /\ [][NextComplex]_vars

(***************************************************************************)
(* Claims about the complexity rule                                        *)
(***************************************************************************)
\* number of diagnostics reported on node nid
ReportCount(nid) == Cardinality({k \in DOMAIN reports : reports[k].node = nid})
Reported(nid) == ReportCount(nid) > 0
\* the expression of container i, once a callback has checked it
CheckedExpr(i) == ContainerAt(i).expression
IsChecked(i) == i \in DOMAIN input /\ ContainerAt(i) # Null /\ pc = {}

\* C2: in one traversal no JSXExpressionContainer is reported twice, whatever
\* the order of the JSXAttribute and JSXExpressionContainer callbacks, and a
\* container whose expression has more than 2 logical operators is reported
\* exactly once when its callbacks have run.
C2_OneDiagnosticPerContainer ==
    \A i \in DOMAIN input :
        /\ ReportCount(i) <= 1
        /\ (IsChecked(i) /\ CheckedExpr(i).type # "JSXEmptyExpression"
              /\ countLogicalOperators(CheckedExpr(i)) > 2) => ReportCount(i) = 1

\* both visitors have run on an attribute's container with 3 operators
C2_Witness ==
    /\ rule = "no-complex-jsx-conditions"
    /\ pc = {}
    /\ \E i \in DOMAIN input :
          /\ input[i].type = "JSXAttribute"
          /\ input[i].value = JSXContainer(FourOperands)
          /\ ReportCount(i) = 1

\* the leaves of a chain of LogicalExpression nodes
RECURSIVE ChainLeaves(_)
ChainLeaves(e) ==
    IF e.type = "LogicalExpression" THEN ChainLeaves(e.left) \cup ChainLeaves(e.right)
    ELSE {e}

\* number of property accesses of a member chain, counted from the root object
RECURSIVE AccessCount(_)
AccessCount(e) == IF e.type = "MemberExpression" THEN AccessCount(e.object) + 1 ELSE 0

\* the claim's notion of a complex operand
ClaimComplexOperand(e) ==
    \/ e.type = "MemberExpression" /\ AccessCount(e) >= 2
    \/ e.type = "CallExpression" /\ e.arguments # <<>>
    \/ e.type = "BinaryExpression"

RECURSIVE SubNodes(_)
RECURSIVE SubNodesOfSeq(_)
SubNodes(e) ==
    {e} \cup
    CASE e.type \in {"LogicalExpression", "AssignmentExpression", "BinaryExpression"} ->
            SubNodes(e.left) \cup SubNodes(e.right)
      [] e.type = "ConditionalExpression" ->
            SubNodes(e.test) \cup SubNodes(e.consequent) \cup SubNodes(e.alternate)
      [] e.type \in {"UnaryExpression", "SpreadElement"} -> SubNodes(e.argument)
      [] e.type = "MemberExpression" -> SubNodes(e.object) \cup SubNodes(e.property)
      [] e.type = "CallExpression" -> SubNodes(e.callee) \cup SubNodesOfSeq(e.arguments)
      [] e.type = "TemplateLiteral" -> SubNodesOfSeq(e.expressions)
      [] e.type = "ArrayExpression" -> SubNodesOfSeq(e.elements)
      [] e.type = "ChainExpression" -> SubNodes(e.expression)
      [] OTHER -> {}
SubNodesOfSeq(s) == IF s = <<>> THEN {} ELSE SubNodes(Head(s)) \cup SubNodesOfSeq(Tail(s))

ContainsLogicalAssignment(e) ==
    \E n \in SubNodes(e) :
        n.type = "AssignmentExpression" /\ n.operator \in {"||=", "&&=", "??="}
ContainsTemplateLiteral(e) == \E n \in SubNodes(e) : n.type = "TemplateLiteral"
ContainsLogicalOperator(e) ==
    \E n \in SubNodes(e) :
        \/ n.type = "LogicalExpression"
        \/ n.type = "AssignmentExpression" /\ n.operator \in {"||=", "&&=", "??="}

\* C9: every JSX expression that contains a logical-assignment operator
\* (||=, &&=, ??=) anywhere inside it is reported, whatever its root node.
C9_LogicalAssignmentReported ==
    \A i \in DOMAIN input :
        (IsChecked(i) /\ CheckedExpr(i).type # "JSXEmptyExpression"
           /\ ContainsLogicalAssignment(CheckedExpr(i))) => Reported(i)

\* C10: every JSX expression that has at least one logical operator and
\* contains a template literal is reported, whatever its root node.
C10_TemplateWithLogicalReported ==
    \A i \in DOMAIN input :
        (IsChecked(i) /\ CheckedExpr(i).type # "JSXEmptyExpression"
           /\ ContainsLogicalOperator(CheckedExpr(i))
           /\ ContainsTemplateLiteral(CheckedExpr(i))) => Reported(i)

\* the count the claim describes: LogicalExpression nodes and ||=, &&=, ??=
\* assignments, reached through the children it lists
RECURSIVE ClaimedLogicalCount(_)
RECURSIVE ClaimedLogicalCountOfSeq(_)
ClaimedLogicalCount(e) ==
    CASE e.type = "LogicalExpression" ->
            1 + ClaimedLogicalCount(e.left) + ClaimedLogicalCount(e.right)
      [] e.type = "AssignmentExpression" /\ e.operator \in {"||=", "&&=", "??="} ->
            1 + ClaimedLogicalCount(e.left) + ClaimedLogicalCount(e.right)
      [] e.type = "ConditionalExpression" ->
            ClaimedLogicalCount(e.test) + ClaimedLogicalCount(e.consequent)
              + ClaimedLogicalCount(e.alternate)
      [] e.type = "BinaryExpression" ->
            ClaimedLogicalCount(e.left) + ClaimedLogicalCount(e.right)
      [] e.type = "UnaryExpression" -> ClaimedLogicalCount(e.argument)
      [] e.type = "MemberExpression" ->
            ClaimedLogicalCount(e.object)
              + (IF e.computed THEN ClaimedLogicalCount(e.property) ELSE 0)
      [] e.type = "CallExpression" -> ClaimedLogicalCountOfSeq(e.arguments)
      [] OTHER -> 0
ClaimedLogicalCountOfSeq(s) ==
    IF s = <<>> THEN 0
    ELSE (IF Head(s).type = "SpreadElement" THEN 0 ELSE ClaimedLogicalCount(Head(s)))
           + ClaimedLogicalCountOfSeq(Tail(s))

\* C11: countLogicalOperators of a checked expression is the number of its
\* LogicalExpression nodes and ||=, &&=, ??= assignments reached through
\* logical, logical-assignment, ternary, binary, unary, member and non-spread
\* call-argument children; an arithmetic compound assignment adds nothing.
C11_CountIsLogicalNodes ==
    \A i \in DOMAIN input :
        (IsChecked(i) /\ CheckedExpr(i).type # "JSXEmptyExpression")
        => countLogicalOperators(CheckedExpr(i)) = ClaimedLogicalCount(CheckedExpr(i))

\* the same equality on the expressions without an arithmetic compound
\* assignment
C11_CountWithoutArithmeticAssignment ==
    \A i \in DOMAIN input :
        (IsChecked(i) /\ CheckedExpr(i).type # "JSXEmptyExpression"
           /\ ~\E n \in SubNodes(CheckedExpr(i)) :
                  n.type = "AssignmentExpression" /\ n.operator \in {"+=", "-="})
        => countLogicalOperators(CheckedExpr(i)) = ClaimedLogicalCount(CheckedExpr(i))

(***************************************************************************)
(* Claims on the derived-conditional rule                                  *)
(***************************************************************************)
IsStringLiteral(e) == e.type = "Literal" /\ e.typeofValue = "string"

\* a declarator `name = init` with a logical initializer that is not a
\* string fallback and a name that does not start with `_`
LogicalDeclarator(d) ==
    /\ d.type = "VariableDeclarator"
    /\ d.id.type = "Identifier"
    /\ d.init.type = "LogicalExpression"
    /\ ~(d.init.operator = "||" /\ (IsStringLiteral(d.init.left) \/ IsStringLiteral(d.init.right)))
    /\ d.id.name[1] # "_"

HasJSX(e) == \E n \in SubNodes(e) : n.type \in {"JSXElement", "JSXFragment"}

\* an identifier in gating position
Gating(n) ==
    /\ n.type = "Identifier"
    /\ \/ /\ Len(n.ancestors) > 0
          /\ n.ancestors[1].type = "LogicalExpression"
          /\ n.ancestors[1].operator = "&&"
          /\ n.ancestors[1].left = Hole
          /\ HasJSX(n.ancestors[1].right)
       \/ /\ Len(n.ancestors) > 0
          /\ n.ancestors[1].type = "ConditionalExpression"
          /\ n.ancestors[1].test = Hole
          /\ (HasJSX(n.ancestors[1].consequent) \/ HasJSX(n.ancestors[1].alternate))
       \/ \E k \in DOMAIN n.ancestors :
             /\ n.ancestors[k].type = "JSXAttribute"
             /\ n.ancestors[k].name \in
                   {JSXIdentifier(<<"c","o","n","d","i","t","i","o","n">>),
                    JSXIdentifier(<<"w","h","e","n">>), JSXIdentifier(<<"i","f">>)}

\* C1 as stated: for every declarator with a logical, non-string-fallback
\* initializer and a name without `_`, a later identifier of that name in
\* gating position puts a diagnostic on that declarator's own identifier, with
\* data name and suggested `_` + name; and no diagnostic exists for a name
\* none of whose identifiers is in gating position.
C1_ReportedOnOwnIdentifier ==
    /\ \A i \in DOMAIN input : \A j \in DOMAIN input :
          (i < j /\ LogicalDeclarator(input[i]) /\ Gating(input[j])
             /\ input[j].name = input[i].id.name)
          => \E r \in DOMAIN reports :
                /\ reports[r].node = i
                /\ reports[r].data = [name |-> input[i].id.name,
                                      suggested |-> <<"_">> \o input[i].id.name]
    /\ \A r \in DOMAIN reports :
          \E j \in DOMAIN input : Gating(input[j]) /\ input[j].name = reports[r].data.name

\* the visits before visit j that recorded `name` as derived
DerivedDeclarations(name, j) ==
    {m \in 1..(j - 1) :
        /\ input[m].type = "VariableDeclarator"
        /\ input[m].id.type = "Identifier"
        /\ input[m].id.name = name
        /\ input[m].init # Null
        /\ isComplexDerivedExpression(input[m].init)}

\* C1 amended: as C1, but the diagnostic is on the identifier of the most
\* recently visited declarator that recorded the name as derived (the
\* declarator itself unless a later one of the same name was recorded before
\* the gating identifier was visited).
C1_ReportedOnLatestDeclaration ==
    /\ \A i \in DOMAIN input : \A j \in DOMAIN input :
          (i < j /\ LogicalDeclarator(input[i]) /\ Gating(input[j])
             /\ input[j].name = input[i].id.name)
          => /\ i \in DerivedDeclarations(input[j].name, j)
             /\ \E r \in DOMAIN reports :
                   /\ \A m \in DerivedDeclarations(input[j].name, j) : m <= reports[r].node
                   /\ reports[r].node \in DerivedDeclarations(input[j].name, j)
                   /\ reports[r].data = [name |-> input[i].id.name,
                                         suggested |-> <<"_">> \o input[i].id.name]
    /\ \A r \in DOMAIN reports :
          \E j \in DOMAIN input : Gating(input[j]) /\ input[j].name = reports[r].data.name

\* a logical declarator, then a gating identifier of its name, has produced
\* a diagnostic on the declarator's identifier
C1_Witness ==
    /\ Len(input) = 2
    /\ LogicalDeclarator(input[1])
    /\ Gating(input[2]) /\ input[2].name = input[1].id.name
    /\ Len(reports) = 1
    /\ reports[1].node = 1

\* a visited declarator `name = init` of the derived-conditional rule
DeclaresWith(k) ==
    /\ input[k].type = "VariableDeclarator"
    /\ input[k].id.type = "Identifier"
    /\ input[k].init # Null

\* x || 'literal string' or 'literal string' || x
StringFallback(e) ==
    /\ e.type = "LogicalExpression" /\ e.operator = "||"
    /\ (IsStringLiteral(e.left) \/ IsStringLiteral(e.right))

\* no diagnostic names the variable
NeverReported(name) == \A r \in DOMAIN reports : reports[r].data.name # name

\* C14: a logical-OR initializer with a string-literal operand is classified
\* neither by isDerivedBooleanExpression nor by isComplexDerivedExpression,
\* whatever the other operand; a variable all of whose declarations are such
\* is not in derivedConditionals and has no diagnostic.
C14_StringFallbackNotDerived ==
    \A k \in DOMAIN input :
        (DeclaresWith(k) /\ StringFallback(input[k].init))
        => /\ ~isDerivedBooleanExpression(input[k].init)
           /\ ~isComplexDerivedExpression(input[k].init)
           /\ (\A m \in DOMAIN input :
                  (DeclaresWith(m) /\ input[m].id.name = input[k].id.name)
                  => StringFallback(input[m].init))
              => /\ input[k].id.name \notin derivedConditionals
                 /\ NeverReported(input[k].id.name)

\* const ok = 'd' || a, then {ok && <div/>}: no diagnostic
C14_Witness ==
    /\ Len(input) = 2
    /\ DeclaresWith(1)
    /\ input[1].init = Logical("||", StrLit(<<"d">>), IdA)
    /\ input[2].type = "Identifier"
    /\ input[2].name = input[1].id.name
    /\ Gating(input[2])
    /\ reports = <<>>

\* a && b with plain identifiers that do not match the boolean-ish pattern
PlainConjunction(e) ==
    /\ e.type = "LogicalExpression" /\ e.operator = "&&"
    /\ e.left.type = "Identifier" /\ ~BooleanishName(e.left.name)
    /\ e.right.type = "Identifier" /\ ~BooleanishName(e.right.name)

\* isX && !isY
BooleanishConjunction(e) ==
    /\ e.type = "LogicalExpression" /\ e.operator = "&&"
    /\ e.left.type = "Identifier" /\ BooleanishName(e.left.name)
    /\ e.right.type = "UnaryExpression" /\ e.right.operator = "!"

\* C15 as stated: a && b with plain identifiers is not classified as derived
\* and the variable initialized with it is not recorded, whereas isX && !isY
\* is classified as derived.
C15_PlainConjunctionNotRecorded ==
    \A k \in DOMAIN input :
        /\ (DeclaresWith(k) /\ PlainConjunction(input[k].init))
           => /\ ~isDerivedBooleanExpression(input[k].init)
              /\ (\A m \in DOMAIN input :
                     (DeclaresWith(m) /\ input[m].id.name = input[k].id.name)
                     => PlainConjunction(input[m].init))
                 => input[k].id.name \notin derivedConditionals
        /\ (DeclaresWith(k) /\ BooleanishConjunction(input[k].init))
           => isDerivedBooleanExpression(input[k].init)

\* C15 amended: a && b with plain identifiers is not classified by
\* isDerivedBooleanExpression, but isComplexDerivedExpression is true of it
\* (it has a logical operator) and the variable initialized with it is
\* recorded in derivedConditionals; isX && !isY is classified as derived and
\* recorded too.
C15_PlainConjunctionRecorded ==
    \A k \in DOMAIN input :
        /\ (DeclaresWith(k) /\ PlainConjunction(input[k].init))
           => /\ ~isDerivedBooleanExpression(input[k].init)
              /\ isComplexDerivedExpression(input[k].init)
              /\ input[k].id.name \in derivedConditionals
        /\ (DeclaresWith(k) /\ BooleanishConjunction(input[k].init))
           => /\ isDerivedBooleanExpression(input[k].init)
              /\ input[k].id.name \in derivedConditionals

\* const ok = a && b has been visited and ok is recorded
C15_Witness ==
    /\ Len(input) = 1
    /\ DeclaresWith(1)
    /\ input[1].init = Logical("&&", IdA, IdB)
    /\ input[1].id.name \in derivedConditionals

\* C19: the suggested name of every diagnostic starts with `_`, is `_`
\* followed by the reported name, and is left unchanged by
\* suggestUnderscorePrefix; every recorded name is left unchanged when it
\* starts with `_` and gets one `_` otherwise.
C19_UnderscoreSuggestion ==
    /\ \A r \in DOMAIN reports :
          /\ hasUnderscorePrefix(reports[r].data.suggested)
          /\ reports[r].data.suggested = <<"_">> \o reports[r].data.name
          /\ suggestUnderscorePrefix(reports[r].data.suggested) = reports[r].data.suggested
    /\ \A name \in derivedConditionals :
          /\ hasUnderscorePrefix(suggestUnderscorePrefix(name))
          /\ suggestUnderscorePrefix(name)
                = (IF name[1] = "_" THEN name ELSE <<"_">> \o name)

\* ok has been reported with _ok while _ok is a recorded name as well
C19_Witness ==
    /\ <<"_","o","k">> \in derivedConditionals
    /\ \E r \in DOMAIN reports :
          /\ reports[r].data.name = <<"o","k">>
          /\ reports[r].data.suggested = <<"_","o","k">>

(***************************************************************************)
(* utils/naming-utils, utils/boolean-utils, utils/jsx-utils                *)
(***************************************************************************)
\* mutant: only the camelCase form is compliant
hasValidPrefix_CamelOnly(name, prefix) == PrefixThenUpper(name, toLowerCase(prefix))

\* hasValidPrefix(name, prefix): ^prefix[A-Z], ^PREFIX_, ^_prefix[A-Z]
hasValidPrefix(name, prefix) ==
    LET lowerPrefix == toLowerCase(prefix)
        upperPrefix == toUpperCase(prefix)
    IN  \/ PrefixThenUpper(name, lowerPrefix)
        \/ startsWith(name, upperPrefix \o <<"_">>)
        \/ PrefixThenUpper(name, <<"_">> \o lowerPrefix)

hasAnyValidPrefix(name, allowedPrefixes) ==
    \E i \in DOMAIN allowedPrefixes : hasValidPrefix(name, allowedPrefixes[i])

\* mutant: the constant and the underscore registers are not kept
suggestPrefixedName_CamelOnly(name, allowedPrefixes) ==
    IF hasAnyValidPrefix(name, allowedPrefixes) THEN name
    ELSE allowedPrefixes[1] \o CapitalizeFirst(name)

\* mutant: the last allowed prefix is the suggested one
suggestPrefixedName_LastPrefix(name, allowedPrefixes) ==
    IF hasAnyValidPrefix(name, allowedPrefixes) THEN name
    ELSE LET prefix == allowedPrefixes[Len(allowedPrefixes)] IN
         IF \A k \in DOMAIN name :
               IsUpperChar(name[k]) \/ name[k] = "_" \/ IsDigitChar(name[k])
         THEN toUpperCase(prefix) \o <<"_">> \o name
         ELSE IF startsWith(name, <<"_">>)
              THEN <<"_">> \o prefix \o CapitalizeFirst(SliceFrom(name, 1))
         ELSE prefix \o CapitalizeFirst(name)

suggestPrefixedName(name, allowedPrefixes) ==
    IF \E i \in DOMAIN allowedPrefixes : hasValidPrefix(name, allowedPrefixes[i]) THEN name
    ELSE LET prefix == allowedPrefixes[1] IN
         IF Len(name) > 0
            /\ \A k \in DOMAIN name :
                  IsUpperChar(name[k]) \/ name[k] = "_" \/ IsDigitChar(name[k])
         THEN toUpperCase(prefix) \o <<"_">> \o name
         ELSE IF startsWith(name, <<"_">>)
              THEN <<"_">> \o prefix \o CapitalizeFirst(SliceFrom(name, 1))
         ELSE prefix \o CapitalizeFirst(name)

isBooleanType(typeAnnotation) ==
    IF typeAnnotation = Null THEN FALSE
    ELSE LET type == typeAnnotation.typeAnnotation IN
         IF type.type = "TSBooleanKeyword" THEN TRUE
         ELSE IF type.type = "TSUnionType"
              THEN \E k \in DOMAIN type.types : type.types[k].type = "TSBooleanKeyword"
         ELSE FALSE

isBooleanLiteral(node) == node.type = "Literal" /\ node.typeofValue = "boolean"

RECURSIVE isBooleanExpression(_)
\* mutant: a ternary is boolean only when both branches are
isBooleanExpression_BothBranches(node) ==
    CASE node.type = "Literal" -> node.typeofValue = "boolean"
      [] node.type = "UnaryExpression" -> node.operator = "!"
      [] node.type = "BinaryExpression" -> node.operator \in ComparisonOperators
      [] node.type = "LogicalExpression" -> node.operator # "??"
      [] node.type = "ConditionalExpression" ->
            isBooleanExpression(node.consequent) /\ isBooleanExpression(node.alternate)
      [] OTHER -> FALSE

isBooleanExpression(node) ==
    CASE node.type = "Literal" -> node.typeofValue = "boolean"
      [] node.type = "UnaryExpression" -> node.operator = "!"
      [] node.type = "BinaryExpression" -> node.operator \in ComparisonOperators
      [] node.type = "LogicalExpression" -> IF node.operator = "??" THEN FALSE ELSE TRUE
      [] node.type = "ConditionalExpression" ->
            isBooleanExpression(node.consequent) \/ isBooleanExpression(node.alternate)
      [] OTHER -> FALSE

isUseStateWithBoolean(node) ==
    IF node.callee.type # "Identifier" \/ node.callee.name # <<"u","s","e","S","t","a","t","e">>
    THEN FALSE
    ELSE IF Len(node.arguments) = 0 THEN FALSE
    ELSE LET firstArg == node.arguments[1] IN
         IF firstArg.type = "SpreadElement" THEN FALSE
         ELSE isBooleanLiteral(firstArg) \/ isBooleanExpression(firstArg)

\* the node and its ancestors, as `current = current.parent` walks them
ParentChain(node) == <<node>> \o node.ancestors

\* mutant: no call is recognised as a schema omit or pick
isInZodOmitOrPickMethod_Never(node) == FALSE

isInZodOmitOrPickMethod(node) ==
    \E k \in DOMAIN ParentChain(node) :
        LET current == ParentChain(node)[k] IN
        /\ current.type = "CallExpression"
        /\ current.callee.type = "MemberExpression"
        /\ current.callee.property.type = "Identifier"
        /\ current.callee.property.name \in {<<"o","m","i","t">>, <<"p","i","c","k">>}

isInConstructorCall(node) ==
    \E k \in DOMAIN ParentChain(node) : ParentChain(node)[k].type = "NewExpression"

\* isComponentOrHookParameter(node): the walk over node.parent; ancestors[k + 1]
\* is the parent of ancestors[k]
isComponentOrHookParameter(node) ==
    LET anc == node.ancestors
        \* /^[A-Z]/.test(name) || /^use[A-Z]/.test(name)
        ComponentOrHookName(name) ==
            StartsUpper(name) \/ PrefixThenUpper(name, <<"u","s","e">>)
        RECURSIVE walk(_)
        walk(k) ==
            IF k > Len(anc) THEN FALSE
            ELSE LET current == anc[k]
                     parent == IF k < Len(anc) THEN anc[k + 1] ELSE Null
                 IN  IF current.type = "FunctionDeclaration" /\ current.id # Null
                     THEN ComponentOrHookName(current.id.name)
                     ELSE IF /\ current.type = "ArrowFunctionExpression"
                             /\ parent.type = "VariableDeclarator"
                             /\ parent.id.type = "Identifier"
                          THEN ComponentOrHookName(parent.id.name)
                     ELSE IF /\ current.type = "ArrowFunctionExpression"
                             /\ parent.type = "CallExpression"
                             /\ parent.callee.type = "Identifier"
                             /\ parent.callee.name = <<"f","o","r","w","a","r","d","R","e","f">>
                          THEN TRUE
                     ELSE walk(k + 1)
    IN  walk(1)

(***************************************************************************)
(* rules/require-boolean-prefix-is                                         *)
(***************************************************************************)
DEFAULT_OPTIONS == [allowedPrefixes |-> << <<"i","s">> >>]

RECURSIVE JoinQuoted(_)
\* prefixes.map((p) => `"${p}"`).join(', ')
JoinQuoted(prefixes) ==
    IF Len(prefixes) = 0 THEN <<>>
    ELSE IF Len(prefixes) = 1 THEN <<"\"">> \o prefixes[1] \o <<"\"">>
    ELSE <<"\"">> \o prefixes[1] \o <<"\"", ",", " ">> \o JoinQuoted(Tail(prefixes))

formatPrefixes(prefixes) ==
    IF Len(prefixes) = 1 THEN JoinQuoted(prefixes)
    ELSE IF Len(prefixes) = 2
         THEN JoinQuoted(<<prefixes[1]>>) \o <<",", " ", "o", "r", " ">>
                \o JoinQuoted(<<prefixes[2]>>)
    ELSE JoinQuoted(SubSeq(prefixes, 1, Len(prefixes) - 1)) \o <<",", " ", "o", "r", " ">>
           \o JoinQuoted(<<prefixes[Len(prefixes)]>>)

\* reportBooleanPrefixError(node, name): the reports after the call
reportBooleanPrefixError(nid, name) ==
    Append(reports,
           [messageId |-> "booleanShouldStartWithPrefix", node |-> nid,
            data |-> [name |-> name,
                      prefixes |-> formatPrefixes(input.allowedPrefixes),
                      suggested |-> suggestPrefixedName(name, input.allowedPrefixes)]])

\* checkBooleanVariable(node, name): the reports after the call
checkBooleanVariable(nid, node, name) ==
    LET value == IF node.type = "VariableDeclarator" THEN node.init ELSE node.right
        likely == /\ value # Null
                  /\ isLikelyBooleanExpression(value)
                  /\ \/ ~(value.type = "LogicalExpression" /\ value.operator = "??")
                     \/ isBooleanLiteral(value.left)
                     \/ isBooleanLiteral(value.right)
    IN
    IF hasAnyValidPrefix(name, input.allowedPrefixes) THEN reports
    ELSE IF isInZodOmitOrPickMethod(node) \/ isInConstructorCall(node) THEN reports
    ELSE IF value # Null /\ isBooleanLiteral(value)
         THEN reportBooleanPrefixError(nid, name)
    ELSE IF /\ node.type = "VariableDeclarator"
            /\ node.id.type = "Identifier"
            /\ node.id.typeAnnotation # Null
            /\ isBooleanType(node.id.typeAnnotation)
         THEN reportBooleanPrefixError(nid, name)
    ELSE IF likely THEN reportBooleanPrefixError(nid, name)
    ELSE reports

\* checkArrayPattern(node): the reports after the call; a hole of the pattern
\* is a null element
checkArrayPattern(nid, node) ==
    LET parent == node.parent IN
    IF /\ parent.type = "VariableDeclarator"
       /\ parent.init # Null
       /\ parent.init.type = "CallExpression"
       /\ isUseStateWithBoolean(parent.init)
       /\ Len(node.elements) > 0
       /\ node.elements[1] # Null
       /\ node.elements[1].type = "Identifier"
       /\ ~hasAnyValidPrefix(node.elements[1].name, input.allowedPrefixes)
    THEN reportBooleanPrefixError(nid, node.elements[1].name)
    ELSE reports

\* checkObjectProperty(node): the reports after the call.  The loop over
\* node.parent returns at the first CallExpression met before a
\* VariableDeclarator or an AssignmentExpression.
checkObjectProperty(nid, node) ==
    LET isCallArgument ==
            \E k \in DOMAIN node.ancestors :
                /\ node.ancestors[k].type = "CallExpression"
                /\ \A j \in 1..(k - 1) :
                      node.ancestors[j].type
                        \notin {"VariableDeclarator", "AssignmentExpression"}
        isExpression(val) ==
            /\ val # Null
            /\ val.type # "AssignmentPattern"
            /\ val.type # "TSEmptyBodyFunctionExpression"
    IN
    IF /\ node.key.type = "Identifier"
       /\ ~node.computed
       /\ node.value # Null
       /\ ~hasAnyValidPrefix(node.key.name, input.allowedPrefixes)
    THEN IF isInZodOmitOrPickMethod(node) \/ isInConstructorCall(node) THEN reports
         ELSE IF isCallArgument THEN reports
         ELSE IF isExpression(node.value) /\ isBooleanLiteral(node.value)
              THEN reportBooleanPrefixError(nid, node.key.name)
         ELSE IF isExpression(node.value) /\ isLikelyBooleanExpression(node.value)
              THEN reportBooleanPrefixError(nid, node.key.name)
         ELSE reports
    ELSE reports

\* 'Property[kind="init"]': checkObjectProperty; the diagnostic on the key is
\* recorded under the index of the property
BoolPrefixProperty ==
    /\ rule = "require-boolean-prefix-is"
    /\ pc \in DOMAIN input.body
    /\ input.body[pc].type = "Property"
    /\ pc' = pc + 1
    /\ lastVisited' = [callback |-> "Property", index |-> pc]
    /\ reports' = IF input.body[pc].kind = "init"
                  THEN checkObjectProperty(pc, input.body[pc])
                  ELSE reports
    /\ UNCHANGED <<rule, input, checkedNodes, derivedConditionals, variableNodes,
                   usedAsEventHandlers, allFunctions>>

\* checkParameter(node): the reports after the call
checkParameter(nid, node) ==
    IF node.type = "Identifier" /\ ~hasAnyValidPrefix(node.name, input.allowedPrefixes)
    THEN IF ~isComponentOrHookParameter(node) THEN reports
         ELSE IF node.typeAnnotation # Null /\ isBooleanType(node.typeAnnotation)
              THEN reportBooleanPrefixError(nid, node.name)
         ELSE reports
    ELSE IF node.type = "AssignmentPattern" /\ node.left.type = "Identifier"
         THEN LET name == node.left.name IN
              IF hasAnyValidPrefix(name, input.allowedPrefixes) THEN reports
              ELSE IF ~isComponentOrHookParameter(node) THEN reports
              ELSE IF isBooleanLiteral(node.right) THEN reportBooleanPrefixError(nid, name)
              ELSE IF node.left.typeAnnotation # Null /\ isBooleanType(node.left.typeAnnotation)
                   THEN reportBooleanPrefixError(nid, name)
              ELSE reports
    ELSE reports

\* checkObjectPatternProperty(prop): the diagnostics it adds; the parent of
\* the property is the pattern
checkObjectPatternProperty(nid, pattern, prop) ==
    IF /\ prop.type = "Property"
       /\ prop.key.type = "Identifier"
       /\ prop.value.type = "Identifier"
       /\ ~hasAnyValidPrefix(prop.value.name, input.allowedPrefixes)
       /\ isComponentOrHookParameter([ancestors |-> <<pattern>> \o pattern.ancestors])
       /\ prop.value.typeAnnotation # Null
       /\ isBooleanType(prop.value.typeAnnotation)
    THEN <<reportBooleanPrefixError(nid, prop.value.name)[Len(reports) + 1]>>
    ELSE <<>>

\* checkParameterPattern(node): the diagnostics it adds, one for each
\* destructured property in the order of node.properties
checkParameterPattern(nid, node) ==
    IF ~isComponentOrHookParameter(node) THEN <<>>
    ELSE IF node.typeAnnotation = Null
              \/ node.typeAnnotation.typeAnnotation.type # "TSTypeLiteral" THEN <<>>
    ELSE LET members == node.typeAnnotation.typeAnnotation.members
             propertyTypes ==
                 {members[i].key.name : i \in {j \in DOMAIN members :
                     /\ members[j].type = "TSPropertySignature"
                     /\ members[j].key.type = "Identifier"
                     /\ members[j].typeAnnotation # Null
                     /\ isBooleanType(members[j].typeAnnotation)}}
             reported(prop) ==
                 /\ prop.type = "Property"
                 /\ prop.key.type = "Identifier"
                 /\ prop.value.type = "Identifier"
                 /\ ~hasAnyValidPrefix(prop.value.name, input.allowedPrefixes)
                 /\ prop.key.name \in propertyTypes
             props == SelectSeq(node.properties, reported)
         IN  [i \in 1..Len(props) |->
                 reportBooleanPrefixError(nid, props[i].value.name)[Len(reports) + 1]]

\* 'FunctionDeclaration > :first-child[type="Identifier"]' and
\* 'MethodDefinition[value.params] > FunctionExpression > :first-child[type="Identifier"]':
\* the node is params[0] of the function; node.index is its place in params
BoolPrefixFirstParameter ==
    /\ rule = "require-boolean-prefix-is"
    /\ pc \in DOMAIN input.body
    /\ input.body[pc].type = "Identifier"
    /\ pc' = pc + 1
    /\ lastVisited' = [callback |-> "FirstParameter", index |-> pc]
    /\ LET node == input.body[pc]
           anc == node.ancestors
           selected ==
               /\ node.index = 0
               /\ \/ anc[1].type = "FunctionDeclaration"
                  \/ /\ anc[1].type = "FunctionExpression"
                     /\ Len(anc) > 1
                     /\ anc[2].type = "MethodDefinition"
       IN  reports' = IF selected THEN checkParameter(pc, node) ELSE reports
    /\ UNCHANGED <<rule, input, checkedNodes, derivedConditionals, variableNodes,
                   usedAsEventHandlers, allFunctions>>

\* ObjectPattern(node): checkParameterPattern, then the properties of a
\* variable destructuring; the diagnostics on the property values are
\* recorded under the index of the pattern
BoolPrefixObjectPattern ==
    /\ rule = "require-boolean-prefix-is"
    /\ pc \in DOMAIN input.body
    /\ input.body[pc].type = "ObjectPattern"
    /\ pc' = pc + 1
    /\ lastVisited' = [callback |-> "ObjectPattern", index |-> pc]
    /\ LET node == input.body[pc]
           \* node.properties.forEach((prop) => checkObjectPatternProperty(prop))
           RECURSIVE forEachProperty(_)
           forEachProperty(k) ==
               IF k > Len(node.properties) THEN <<>>
               ELSE checkObjectPatternProperty(pc, node, node.properties[k])
                      \o forEachProperty(k + 1)
       IN  reports' = reports \o checkParameterPattern(pc, node)
                        \o (IF /\ Len(node.ancestors) > 0
                               /\ node.ancestors[1].type = "VariableDeclarator"
                            THEN forEachProperty(1)
                            ELSE <<>>)
    /\ UNCHANGED <<rule, input, checkedNodes, derivedConditionals, variableNodes,
                   usedAsEventHandlers, allFunctions>>

\* ArrayPattern: checkArrayPattern; the diagnostic on the first element is
\* recorded under the index of the pattern
BoolPrefixArrayPattern ==
    /\ rule = "require-boolean-prefix-is"
    /\ pc \in DOMAIN input.body
    /\ input.body[pc].type = "ArrayPattern"
    /\ pc' = pc + 1
    /\ lastVisited' = [callback |-> "ArrayPattern", index |-> pc]
    /\ reports' = checkArrayPattern(pc, input.body[pc])
    /\ UNCHANGED <<rule, input, checkedNodes, derivedConditionals, variableNodes,
                   usedAsEventHandlers, allFunctions>>

\* VariableDeclarator(node); the identity of a node is its index in the body
BoolPrefixVariableDeclarator ==
    /\ rule = "require-boolean-prefix-is"
    /\ pc \in DOMAIN input.body
    /\ input.body[pc].type = "VariableDeclarator"
    /\ pc' = pc + 1
    /\ lastVisited' = [callback |-> "VariableDeclarator", index |-> pc]
    /\ reports' = IF input.body[pc].id.type = "Identifier"
                  THEN checkBooleanVariable(pc, input.body[pc], input.body[pc].id.name)
                  ELSE reports
    /\ UNCHANGED <<rule, input, checkedNodes, derivedConditionals, variableNodes,
                   usedAsEventHandlers, allFunctions>>

\* AssignmentPattern(node)
BoolPrefixAssignmentPattern ==
    /\ rule = "require-boolean-prefix-is"
    /\ pc \in DOMAIN input.body
    /\ input.body[pc].type = "AssignmentPattern"
    /\ pc' = pc + 1
    /\ lastVisited' = [callback |-> "AssignmentPattern", index |-> pc]
    /\ reports' = IF input.body[pc].left.type = "Identifier"
                  THEN checkBooleanVariable(pc, input.body[pc], input.body[pc].left.name)
                  ELSE reports
    /\ UNCHANGED <<rule, input, checkedNodes, derivedConditionals, variableNodes,
                   usedAsEventHandlers, allFunctions>>

\* identifier names in the three registers, with and without the prefix
MaxDeclarations == 2

\* files of one node, and files of up to MaxDeclarations declarators
BoolPrefixFiles ==
    LET BoolPrefixNames ==
            LET heads == {<<>>, <<"_">>, <<"i">>, <<"i","s">>, <<"I","S">>, <<"_","i","s">>,
                          <<"h","a","s">>}
                rests == {<<"v">>, <<"V">>, <<"V","s">>, <<"_","V">>, <<"_">>, <<"V","1">>,
                          <<"_","v">>, <<"$","v">>}
            IN  {h \o r : h \in heads, r \in rests}
        \* initializers and useState arguments of every classified kind
        leaves == {BoolLit(TRUE), StrLit(<<"s">>),
                   [type |-> "Literal", typeofValue |-> "object", value |-> Null],
                   IdA, Id(<<"i","s","A">>), Unary("!", IdA), Unary("-", IdA),
                   Unary("typeof", IdA), Binary("+", IdA, IdB),
                   Binary("instanceof", IdA, IdB), Call(IdF, <<>>),
                   Member(IdA, IdB, FALSE), Template(<<>>),
                   Logical("&&", IdA, IdB), Logical("||", IdA, StrLit(<<"s">>)),
                   Logical("??", IdA, BoolLit(FALSE)),
                   Logical("??", BoolLit(TRUE), BoolLit(FALSE))}
                     \cup {Binary(op, IdA, IdB) : op \in ComparisonOperators}
        ternaries == {Cond(IdA, c, a) : c \in leaves, a \in leaves}
        nested == {Cond(IdA, Cond(IdB, c, a), IdB) :
                      c \in {IdA, BoolLit(FALSE)}, a \in {IdA, Unary("!", IdA)}}
                    \cup {Cond(IdA, IdB, Cond(IdB, c, a)) :
                            c \in {IdA, BoolLit(FALSE)}, a \in {IdA, Unary("!", IdA)}}
        logicals == {Logical(op, l, r) : op \in {"&&", "||"}, l \in leaves, r \in leaves}
        \* the nodes above a declaration, the parent first
        BoolPrefixAncestors ==
            LET arrow == [type |-> "ArrowFunctionExpression"]
                declaration == [type |-> "VariableDeclaration"]
                method(name) == Call(Member(IdA, Id(name), FALSE), <<Hole>>)
            IN  {<<declaration>>,
                 <<declaration, arrow, [type |-> "NewExpression"]>>,
                 <<declaration, arrow, method(<<"o","m","i","t">>)>>,
                 <<declaration, arrow, method(<<"p","i","c","k">>)>>,
                 <<declaration, arrow, method(<<"m","a","p">>)>>,
                 <<declaration, arrow, Call(Id(<<"p","i","c","k">>), <<Hole>>)>>}
        BoolPrefixNodes ==
            LET isA == Id(<<"i","s","A">>)
                annotated(t) == [type |-> "TSTypeAnnotation", typeAnnotation |-> t]
                boolean == [type |-> "TSBooleanKeyword"]
                string == [type |-> "TSStringKeyword"]
                values == {BoolLit(TRUE), BoolLit(FALSE), IdA, isA, Unary("!", IdA),
                           [type |-> "Literal", typeofValue |-> "number", value |-> 1],
                           Logical("??", IdA, BoolLit(FALSE)), Logical("??", isA, isA),
                           Logical("&&", isA, IdA)}
                annotations == {annotated(boolean), annotated(string),
                                annotated([type |-> "TSUnionType", types |-> <<string, boolean>>])}
                identifier(n, t) == [type |-> "Identifier", name |-> n, typeAnnotation |-> t]
            IN  {[type |-> "VariableDeclarator", id |-> identifier(n, Null), init |-> v,
                  ancestors |-> a] :
                    n \in BoolPrefixNames, v \in values \cup {Null}, a \in BoolPrefixAncestors}
                  \cup {[type |-> "VariableDeclarator", id |-> identifier(n, t), init |-> v,
                         ancestors |-> a] :
                          n \in BoolPrefixNames, t \in annotations, v \in {Null, IdA},
                          a \in {<<[type |-> "VariableDeclaration"]>>}}
                  \cup {[type |-> "VariableDeclarator", id |-> [type |-> "ArrayPattern"],
                         init |-> BoolLit(TRUE), ancestors |-> <<[type |-> "VariableDeclaration"]>>]}
                  \cup {[type |-> "VariableDeclarator", id |-> identifier(<<"v">>, Null),
                         init |-> v, ancestors |-> <<[type |-> "VariableDeclaration"]>>] :
                          v \in leaves \cup ternaries \cup nested \cup logicals}
                  \cup {[type |-> "AssignmentPattern", left |-> identifier(n, Null), right |-> v,
                         ancestors |-> <<[type |-> "ObjectPattern"]>> \o a] :
                          n \in BoolPrefixNames, v \in values, a \in BoolPrefixAncestors}
        \* const [state, setState] = useState(argument) and its neighbours
        BoolPrefixArrayPatterns ==
            LET useState == Id(<<"u","s","e","S","t","a","t","e">>)
                calls == {Call(useState, <<v>>) : v \in leaves \cup ternaries \cup nested}
                           \cup {Call(useState, <<>>), Call(useState, <<Spread(IdA)>>),
                                 Call(useState, <<IdA, BoolLit(TRUE)>>),
                                 Call(IdF, <<BoolLit(TRUE)>>),
                                 Call(Member(Id(<<"R","e","a","c","t">>), useState, FALSE),
                                      <<BoolLit(TRUE)>>)}
                pattern(els, parent) ==
                    [type |-> "ArrayPattern", elements |-> els, parent |-> parent]
                declarator(init) == [type |-> "VariableDeclarator", init |-> init]
                setter == Id(<<"s","e","t","V">>)
            IN  {pattern(<<Id(n), setter>>, declarator(c)) :
                    n \in {<<"v">>, <<"i","s","V">>, <<"h","a","s","V">>}, c \in calls}
                  \cup {pattern(els, declarator(Call(useState, <<BoolLit(TRUE)>>))) :
                          els \in {<<>>, <<Null, setter>>,
                                   <<[type |-> "ObjectPattern"], setter>>}}
                  \cup {pattern(<<Id(<<"v">>), setter>>, p) :
                          p \in {declarator(Null), declarator(BoolLit(TRUE)),
                                 [type |-> "ArrowFunctionExpression"],
                                 [type |-> "AssignmentExpression"]}}
        \* properties of object literals: { key: value } assigned, returned,
        \* passed to a call or to `new`, at the top or inside a callback
        BoolPrefixProperties ==
            LET object == [type |-> "ObjectExpression"]
                declarator == [type |-> "VariableDeclarator"]
                arrow == [type |-> "ArrowFunctionExpression"]
                new == [type |-> "NewExpression"]
                method(name) == Call(Member(IdA, Id(name), FALSE), <<Hole>>)
                omit == method(<<"o","m","i","t">>)
                pick == method(<<"p","i","c","k">>)
                above == {<<object, declarator>>,
                          <<object, [type |-> "AssignmentExpression"]>>,
                          <<object, [type |-> "ReturnStatement"]>>,
                          <<object, Cond(IdA, Hole, IdB), declarator>>,
                          <<object, [type |-> "Property"], object, declarator>>,
                          <<object, Call(IdF, <<Hole>>), declarator>>,
                          <<object, method(<<"m","a","p">>), declarator>>,
                          <<object, omit, declarator>>,
                          <<object, pick>>,
                          <<object, new, declarator>>,
                          <<object, declarator, arrow, omit>>,
                          <<object, declarator, arrow, pick, declarator>>,
                          <<object, declarator, arrow, new>>,
                          <<object, [type |-> "ReturnStatement"], arrow, new>>,
                          <<object, declarator, arrow, Call(IdF, <<Hole>>)>>,
                          <<object, declarator, arrow, Call(Id(<<"p","i","c","k">>), <<Hole>>)>>}
                keys == {[key |-> Id(n), computed |-> FALSE] :
                            n \in {<<"v">>, <<"V">>, <<"i","s","V">>, <<"h","a","s","V">>}}
                          \cup {[key |-> Id(<<"v">>), computed |-> TRUE],
                                [key |-> StrLit(<<"v">>), computed |-> FALSE]}
                values == {BoolLit(TRUE), BoolLit(FALSE), IdA, Id(<<"i","s","A">>),
                           Unary("!", IdA), StrLit(<<"s">>), Logical("??", IdA, BoolLit(TRUE)),
                           Cond(IdA, BoolLit(TRUE), IdA), [type |-> "AssignmentPattern"],
                           [type |-> "TSEmptyBodyFunctionExpression"]}
                property(k, v, kind, a) ==
                    [type |-> "Property", key |-> k.key, computed |-> k.computed, value |-> v,
                     kind |-> kind, ancestors |-> a]
            IN  {property(k, v, "init", a) : k \in keys, v \in values, a \in above}
                  \cup {property(k, [type |-> "FunctionExpression"], "get", <<object, declarator>>) :
                          k \in keys}
        \* parameters: the functions around them, the nearest first
        BoolPrefixFunctions ==
            LET fd(name) == [type |-> "FunctionDeclaration", id |-> Id(name)]
                arrow == [type |-> "ArrowFunctionExpression"]
                declarator(name) == [type |-> "VariableDeclarator", id |-> Id(name)]
                block == [type |-> "BlockStatement"]
                util == <<"u","t","i","l">>
                Comp == <<"C","o","m","p">>
            IN  {<<fd(util)>>, <<fd(Comp)>>, <<fd(<<"u","s","e","X">>)>>,
                 <<fd(<<"u","s","e","r">>)>>,
                 <<[type |-> "FunctionDeclaration", id |-> Null]>>,
                 <<arrow, declarator(util)>>, <<arrow, declarator(Comp)>>,
                 <<arrow, declarator(<<"u","s","e","X">>)>>,
                 <<arrow, Call(Id(<<"f","o","r","w","a","r","d","R","e","f">>), <<Hole>>)>>,
                 <<arrow, Call(Member(IdA, Id(<<"m","a","p">>), FALSE), <<Hole>>)>>,
                 <<[type |-> "FunctionExpression"], [type |-> "MethodDefinition"]>>,
                 <<fd(util), block, fd(Comp)>>,
                 <<arrow, declarator(util), block, fd(Comp)>>,
                 <<[type |-> "FunctionExpression"], declarator(util), block, fd(Comp)>>}
        BoolPrefixParameters ==
            LET annotated(t) == [type |-> "TSTypeAnnotation", typeAnnotation |-> t]
                boolean == annotated([type |-> "TSBooleanKeyword"])
                string == annotated([type |-> "TSStringKeyword"])
                names == {<<"v">>, <<"i","s","V">>}
                plain(n) == [type |-> "Identifier", name |-> n, typeAnnotation |-> Null]
                member(n, t) ==
                    [type |-> "TSPropertySignature", key |-> Id(n), typeAnnotation |-> t]
                literal(ms) == annotated([type |-> "TSTypeLiteral", members |-> ms])
                property(k, v) == [type |-> "Property", key |-> Id(k), value |-> v]
                annotations ==
                    {Null, annotated([type |-> "TSTypeReference"]),
                     literal(<<member(<<"v">>, boolean)>>),
                     literal(<<member(<<"v">>, string)>>),
                     literal(<<member(<<"v">>, boolean), member(<<"w">>, string),
                               member(<<"e">>, boolean)>>)}
                properties ==
                    {<<property(<<"v">>, plain(<<"v">>))>>,
                     <<property(<<"v">>, plain(<<"i","s","V">>))>>,
                     <<property(<<"v">>, plain(<<"v">>)), property(<<"w">>, plain(<<"w">>)),
                       property(<<"e">>, plain(<<"e">>))>>,
                     <<property(<<"v">>, [type |-> "AssignmentPattern"])>>,
                     <<[type |-> "RestElement"]>>}
            IN  {[type |-> "Identifier", name |-> n, typeAnnotation |-> t, index |-> i,
                  ancestors |-> f] :
                    n \in names, t \in {Null, boolean, string}, i \in {0, 1},
                    f \in BoolPrefixFunctions}
                  \cup {[type |-> "AssignmentPattern", left |-> plain(n), right |-> v,
                         ancestors |-> a \o f] :
                          n \in names, v \in {BoolLit(TRUE), IdA},
                          a \in {<<>>, <<[type |-> "Property"], [type |-> "ObjectPattern"]>>},
                          f \in BoolPrefixFunctions}
                  \cup {[type |-> "ObjectPattern", typeAnnotation |-> t, properties |-> ps,
                         ancestors |-> f] :
                          t \in annotations, ps \in properties,
                          f \in BoolPrefixFunctions
                                 \cup {<<[type |-> "VariableDeclarator",
                                          id |-> [type |-> "ObjectPattern"]],
                                         [type |-> "VariableDeclaration"],
                                         [type |-> "BlockStatement"],
                                         [type |-> "FunctionDeclaration",
                                          id |-> Id(<<"C","o","m","p">>)]>>}}
        \* the options the rule is created with
        BoolPrefixOptions ==
            {DEFAULT_OPTIONS.allowedPrefixes, << <<"h","a","s">> >>, << <<"I","s">> >>,
             << <<"c","a","n">>, <<"i","s">>, <<"h","a","s">> >>}
        sample == {n \in BoolPrefixNodes :
                      /\ n.type = "VariableDeclarator"
                      /\ n.id.type = "Identifier"
                      /\ n.id.name \in {<<"v">>, <<"i","s","V">>}
                      /\ n.id.typeAnnotation = Null
                      /\ n.init \in {BoolLit(TRUE), IdA}
                      /\ Len(n.ancestors) \in {1, 3}}
        bodies == {<<n>> : n \in BoolPrefixNodes \cup BoolPrefixArrayPatterns
                                   \cup BoolPrefixProperties \cup BoolPrefixParameters}
                    \cup UNION {[1..k -> sample] : k \in 2..MaxDeclarations}
    IN  {[allowedPrefixes |-> o, body |-> b] : o \in BoolPrefixOptions, b \in bodies}

InitBoolPrefix ==
    /\ rule = "require-boolean-prefix-is"
    /\ input \in BoolPrefixFiles
    /\ pc = 1
    /\ lastVisited = [callback |-> "none", index |-> 0]
    /\ reports = <<>>
    /\ checkedNodes = {}
    /\ derivedConditionals = {}
    /\ variableNodes = <<>>
    /\ usedAsEventHandlers = {}
    /\ allFunctions = <<>>

NextBoolPrefix ==
    \/ BoolPrefixVariableDeclarator
    \/ BoolPrefixAssignmentPattern
    \/ BoolPrefixArrayPattern
    \/ BoolPrefixProperty
    \/ BoolPrefixFirstParameter
    \/ BoolPrefixObjectPattern

SpecBoolPrefix == InitBoolPrefix /\ [][NextBoolPrefix]_vars

(***************************************************************************)
(* Claims on the boolean-prefix rule                                       *)
(***************************************************************************)
\* the diagnostics reported on node k
ReportsOn(k) == {r \in DOMAIN reports : reports[r].node = k}

\* a visited declarator `name = true` or `name = false`
BooleanLiteralDeclarator(k) ==
    /\ k \in DOMAIN input.body /\ k < pc
    /\ input.body[k].type = "VariableDeclarator"
    /\ input.body[k].id.type = "Identifier"
    /\ input.body[k].init.type = "Literal"
    /\ input.body[k].init.typeofValue = "boolean"

InIgnoredContext(node) ==
    \E k \in DOMAIN node.ancestors :
        \/ node.ancestors[k].type = "NewExpression"
        \/ /\ node.ancestors[k].type = "CallExpression"
           /\ node.ancestors[k].callee.type = "MemberExpression"
           /\ node.ancestors[k].callee.property \in {Id(<<"o","m","i","t">>), Id(<<"p","i","c","k">>)}

\* the suggestion in the register of the name: PREFIX_NAME for a name of
\* uppercase letters, underscores and digits, _prefixName for a name that
\* starts with `_`, prefixName otherwise
InRegister(name, prefix) ==
    IF \A k \in DOMAIN name : IsUpperChar(name[k]) \/ name[k] = "_" \/ IsDigitChar(name[k])
    THEN toUpperCase(prefix) \o <<"_">> \o name
    ELSE IF name[1] = "_" THEN <<"_">> \o prefix \o CapitalizeFirst(Tail(name))
    ELSE prefix \o CapitalizeFirst(name)

UseStateArgument(k) == input.body[k].parent.init.arguments[1]
VisitedUseState(k) ==
    /\ k \in DOMAIN input.body /\ k < pc
    /\ input.body[k].type = "ArrayPattern"
    /\ input.body[k].parent.type = "VariableDeclarator"
    /\ input.body[k].parent.init # Null
    /\ input.body[k].parent.init.type = "CallExpression"
    /\ input.body[k].parent.init.callee = Id(<<"u","s","e","S","t","a","t","e">>)
    /\ Len(input.body[k].parent.init.arguments) > 0
    /\ UseStateArgument(k).type # "SpreadElement"
    /\ Len(input.body[k].elements) > 0
    /\ input.body[k].elements[1] # Null
    /\ input.body[k].elements[1].type = "Identifier"

\* the classification the claim describes
RECURSIVE ClaimedBooleanExpression(_)
ClaimedBooleanExpression(e) ==
    \/ e.type = "Literal" /\ e.typeofValue = "boolean"
    \/ e.type = "UnaryExpression" /\ e.operator = "!"
    \/ e.type = "BinaryExpression"
         /\ e.operator \in {"==", "===", "!=", "!==", "<", ">", "<=", ">="}
    \/ e.type = "LogicalExpression" /\ e.operator \in {"&&", "||"}
    \/ e.type = "ConditionalExpression"
         /\ (ClaimedBooleanExpression(e.consequent) \/ ClaimedBooleanExpression(e.alternate))

\* C12: isBooleanExpression is true for a boolean literal, a `!` expression, a
\* comparison and an && or || expression, false for a ?? expression, true for
\* a ternary exactly when one of its branches is boolean, and false for every
\* other node; the state variable of useState(e) is reported exactly when its
\* name has no allowed prefix and e is classified so.
C12_BooleanExpressionKinds ==
    \A k \in DOMAIN input.body :
        VisitedUseState(k)
        => /\ isBooleanExpression(UseStateArgument(k))
                <=> ClaimedBooleanExpression(UseStateArgument(k))
           /\ (ReportsOn(k) # {})
                <=> /\ ClaimedBooleanExpression(UseStateArgument(k))
                    /\ ~hasAnyValidPrefix(input.body[k].elements[1].name,
                                          input.allowedPrefixes)

\* const [v, setV] = useState(a ? a : !a) has been visited and reported
C12_Witness ==
    /\ VisitedUseState(1)
    /\ UseStateArgument(1) = Cond(IdA, IdA, Unary("!", IdA))
    /\ input.body[1].elements[1].name = <<"v">>
    /\ Len(reports) = 1

\* a visited declarator `name = init` without type annotation
VisitedInitializer(k) ==
    /\ k \in DOMAIN input.body /\ k < pc
    /\ input.body[k].type = "VariableDeclarator"
    /\ input.body[k].id.type = "Identifier"
    /\ input.body[k].id.typeAnnotation = Null
    /\ input.body[k].init # Null

\* C13 as stated: a ternary initializer is likely-boolean only when both of
\* its branches are, and a logical initializer only when both operands are.
C13_TernaryNeedsBothBranches ==
    \A k \in DOMAIN input.body :
        VisitedInitializer(k)
        => LET init == input.body[k].init IN
           /\ (init.type = "ConditionalExpression" /\ isLikelyBooleanExpression(init))
                => /\ isLikelyBooleanExpression(init.consequent)
                   /\ isLikelyBooleanExpression(init.alternate)
           /\ (init.type = "LogicalExpression" /\ isLikelyBooleanExpression(init))
                => /\ isLikelyBooleanExpression(init.left)
                   /\ isLikelyBooleanExpression(init.right)

\* C13 amended: a ternary initializer is likely-boolean exactly when at least
\* one of its branches is, a logical initializer exactly when both operands
\* are; a declarator whose name has no allowed prefix, outside an ignored
\* context, is reported when its initializer is a likely-boolean ternary.
C13_TernaryNeedsOneBranch ==
    \A k \in DOMAIN input.body :
        VisitedInitializer(k)
        => LET init == input.body[k].init IN
           /\ init.type = "ConditionalExpression"
                => /\ isLikelyBooleanExpression(init)
                        <=> \/ isLikelyBooleanExpression(init.consequent)
                            \/ isLikelyBooleanExpression(init.alternate)
                   /\ (/\ ~hasAnyValidPrefix(input.body[k].id.name, input.allowedPrefixes)
                       /\ ~InIgnoredContext(input.body[k]))
                        => ((ReportsOn(k) # {})
                              <=> \/ isLikelyBooleanExpression(init.consequent)
                                  \/ isLikelyBooleanExpression(init.alternate))
           /\ init.type = "LogicalExpression"
                => (isLikelyBooleanExpression(init)
                      <=> /\ isLikelyBooleanExpression(init.left)
                          /\ isLikelyBooleanExpression(init.right))

\* const v = a ? true : a has been visited and reported
C13_Witness ==
    /\ VisitedInitializer(1)
    /\ input.body[1].init = Cond(IdA, BoolLit(TRUE), IdA)
    /\ input.body[1].id.name = <<"v">>
    /\ ReportsOn(1) # {}

\* compliance with a prefix as the claim words it
ClaimedValidPrefix(name, p) ==
    \/ PrefixThenUpper(name, p)
    \/ startsWith(name, toUpperCase(p) \o <<"_">>) /\ Len(name) > Len(p) + 1
    \/ PrefixThenUpper(name, <<"_">> \o p)

\* compliance with a prefix: the lower-cased prefix then an uppercase letter,
\* the upper-cased prefix then `_`, or `_`, the lower-cased prefix and an
\* uppercase letter
CompliantWith(name, p) ==
    \/ PrefixThenUpper(name, toLowerCase(p))
    \/ startsWith(name, toUpperCase(p) \o <<"_">>)
    \/ PrefixThenUpper(name, <<"_">> \o toLowerCase(p))

\* C16 as stated: hasValidPrefix(name, p) holds exactly when name is p then
\* an uppercase letter, or the upper-cased p then `_` and a further
\* character, or `_` and p then an uppercase letter; hasAnyValidPrefix holds
\* exactly when it holds for one prefix of the list.
C16_CompliantNeedsFurtherCharacter ==
    \A k \in DOMAIN input.body :
        (k < pc /\ input.body[k].type = "VariableDeclarator"
           /\ input.body[k].id.type = "Identifier")
        => LET name == input.body[k].id.name IN
           /\ \A i \in DOMAIN input.allowedPrefixes :
                 hasValidPrefix(name, input.allowedPrefixes[i])
                   <=> ClaimedValidPrefix(name, input.allowedPrefixes[i])
           /\ hasAnyValidPrefix(name, input.allowedPrefixes)
                <=> \E i \in DOMAIN input.allowedPrefixes :
                       hasValidPrefix(name, input.allowedPrefixes[i])

\* C16 amended: hasValidPrefix(name, p) holds exactly when name is the
\* lower-cased p then an uppercase letter, or the upper-cased p then `_`
\* (nothing need follow), or `_` and the lower-cased p then an uppercase
\* letter; hasAnyValidPrefix holds exactly when it holds for one prefix of
\* the list, and a boolean-literal declarator outside an ignored context is
\* left unreported exactly when its name is compliant with one of them.
C16_CompliantForms ==
    \A k \in DOMAIN input.body :
        (k < pc /\ input.body[k].type = "VariableDeclarator"
           /\ input.body[k].id.type = "Identifier")
        => LET name == input.body[k].id.name IN
           /\ \A i \in DOMAIN input.allowedPrefixes :
                 hasValidPrefix(name, input.allowedPrefixes[i])
                   <=> CompliantWith(name, input.allowedPrefixes[i])
           /\ hasAnyValidPrefix(name, input.allowedPrefixes)
                <=> \E i \in DOMAIN input.allowedPrefixes :
                       hasValidPrefix(name, input.allowedPrefixes[i])
           /\ (BooleanLiteralDeclarator(k) /\ ~InIgnoredContext(input.body[k]))
                => ((ReportsOn(k) = {})
                      <=> \E i \in DOMAIN input.allowedPrefixes :
                             CompliantWith(name, input.allowedPrefixes[i]))

\* const IS_ = true has been visited under the default options: no diagnostic
C16_Witness ==
    /\ input.allowedPrefixes = DEFAULT_OPTIONS.allowedPrefixes
    /\ BooleanLiteralDeclarator(1)
    /\ ~InIgnoredContext(input.body[1])
    /\ input.body[1].id.name = <<"I","S","_">>
    /\ reports = <<>>

\* C17: with a single allowed prefix p, the suggested name of every
\* diagnostic is a fixed point of suggestPrefixedName and is compliant with p.
C17_SuggestionIsCompliant ==
    \A r \in DOMAIN reports :
        Len(input.allowedPrefixes) = 1
        => /\ suggestPrefixedName(reports[r].data.suggested, input.allowedPrefixes)
                = reports[r].data.suggested
           /\ hasValidPrefix(reports[r].data.suggested, input.allowedPrefixes[1])

\* the register of a name: constant, underscore or camelCase
Register(name) ==
    IF \A k \in DOMAIN name : IsUpperChar(name[k]) \/ name[k] = "_" \/ IsDigitChar(name[k])
    THEN "constant"
    ELSE IF name[1] = "_" THEN "underscore" ELSE "camelCase"

\* C18: the suggested name of every diagnostic is built from the first
\* allowed prefix: PREFIX_name for a name of uppercase letters, underscores
\* and digits, _prefixName for another name that starts with `_`, prefixName
\* otherwise; it is in the register of the reported name.
C18_SuggestionKeepsRegister ==
    \A r \in DOMAIN reports :
        LET name == reports[r].data.name
            prefix == input.allowedPrefixes[1]
            suggested == reports[r].data.suggested
        IN  /\ ~hasAnyValidPrefix(name, input.allowedPrefixes)
            /\ Register(name) = "constant"
                 => suggested = toUpperCase(prefix) \o <<"_">> \o name
            /\ Register(name) = "underscore"
                 => suggested = <<"_">> \o prefix \o CapitalizeFirst(Tail(name))
            /\ Register(name) = "camelCase"
                 => suggested = prefix \o CapitalizeFirst(name)
            /\ Register(suggested) = Register(name)

\* V under [can, is, has] is reported with CAN_V
C18_Witness ==
    /\ Len(input.allowedPrefixes) = 3
    /\ Len(reports) = 1
    /\ reports[1].data.name = <<"V">>
    /\ reports[1].data.suggested = <<"C","A","N","_","V">>

\* a visited property `key: true` or `key: false` of an object literal,
\* with a plain key that has no allowed prefix
BooleanLiteralProperty(k) ==
    /\ k \in DOMAIN input.body /\ k < pc
    /\ input.body[k].type = "Property"
    /\ input.body[k].kind = "init"
    /\ input.body[k].key.type = "Identifier"
    /\ ~input.body[k].computed
    /\ input.body[k].value.type = "Literal"
    /\ input.body[k].value.typeofValue = "boolean"
    /\ \A i \in DOMAIN input.allowedPrefixes :
          ~CompliantWith(input.body[k].key.name, input.allowedPrefixes[i])

\* the object literal of the property is the right-hand side of a
\* declaration or of an assignment
AssignedToVariable(node) ==
    /\ Len(node.ancestors) >= 2
    /\ node.ancestors[1].type = "ObjectExpression"
    /\ node.ancestors[2].type \in {"VariableDeclarator", "AssignmentExpression"}

ParameterOf(node) ==
    LET functions == {"FunctionDeclaration", "ArrowFunctionExpression", "FunctionExpression"}
        anc == node.ancestors
    IN  IF Len(anc) >= 1 /\ anc[1].type \in functions THEN 1
        ELSE IF /\ node.type = "AssignmentPattern"
                /\ Len(anc) >= 3
                /\ anc[1].type = "Property" /\ anc[2].type = "ObjectPattern"
                /\ anc[3].type \in functions
             THEN 3
        ELSE 0

\* the declared name of that function: the id of a declaration, or the
\* variable an arrow function or function expression is assigned to
DeclaredFunctionName(node) ==
    LET anc == node.ancestors
        f == ParameterOf(node)
    IN  IF anc[f].type = "FunctionDeclaration"
        THEN (IF anc[f].id = Null THEN <<>> ELSE anc[f].id.name)
        ELSE IF Len(anc) > f /\ anc[f + 1].type = "VariableDeclarator"
             THEN anc[f + 1].id.name
        ELSE <<>>

\* a visited parameter of a function with a declared name that is neither a
\* component name nor a hook name
PlainFunctionParameter(k) ==
    /\ k \in DOMAIN input.body /\ k < pc
    /\ input.body[k].type \in {"Identifier", "AssignmentPattern", "ObjectPattern"}
    /\ ParameterOf(input.body[k]) > 0
    /\ DeclaredFunctionName(input.body[k]) # <<>>
    /\ ~StartsUpper(DeclaredFunctionName(input.body[k]))
    /\ ~PrefixThenUpper(DeclaredFunctionName(input.body[k]), <<"u","s","e">>)

\* C21: no parameter of a function whose declared name is neither
\* capitalized nor use + uppercase is reported, whether it is a boolean-typed
\* identifier, a destructured property or a parameter with a boolean default.
C21_PlainFunctionParameterNotReported ==
    \A k \in DOMAIN input.body : PlainFunctionParameter(k) => ReportsOn(k) = {}

(***************************************************************************)
(* rules/component-prop-interface-naming                                   *)
(***************************************************************************)
\* a name that is null; the code tests names for truthiness only
NoName == <<>>

extractComponentName(node) ==
    IF node.type = "FunctionDeclaration" /\ node.id # Null THEN node.id.name
    ELSE IF node.type = "VariableDeclarator" /\ node.id.type = "Identifier" THEN node.id.name
    ELSE NoName

\* mutant: the name is not looked at
isComponentFunction_AnyName(node) == TRUE

isComponentFunction(node) ==
    IF node.type = "FunctionDeclaration" /\ node.id # Null THEN StartsUpper(node.id.name)
    ELSE IF node.type = "VariableDeclarator" /\ node.id.type = "Identifier"
            /\ StartsUpper(node.id.name)
         THEN TRUE
    ELSE FALSE

RECURSIVE findInterfaceNamesInTypeReference(_), findInterfaceNamesInParams(_)
findInterfaceNamesInTypeReference(typeRef) ==
    (IF typeRef.typeName.type = "Identifier" THEN <<typeRef.typeName.name>> ELSE <<>>)
      \o (IF typeRef.typeArguments # Null /\ Len(typeRef.typeArguments.params) > 0
          THEN findInterfaceNamesInParams(typeRef.typeArguments.params)
          ELSE <<>>)
\* for (const param of typeRef.typeArguments.params)
findInterfaceNamesInParams(params) ==
    IF params = <<>> THEN <<>>
    ELSE (IF Head(params).type = "TSTypeReference"
          THEN findInterfaceNamesInTypeReference(Head(params)) ELSE <<>>)
           \o findInterfaceNamesInParams(Tail(params))

RECURSIVE getQualifiedTypeName(_)
\* utils/typescript-utils getQualifiedTypeName(node): the dotted name
getQualifiedTypeName(node) ==
    IF node.left.type = "Identifier"
    THEN node.left.name \o <<".">> \o node.right.name
    ELSE IF node.left.type = "TSQualifiedName"
         THEN getQualifiedTypeName(node.left) \o <<".">> \o node.right.name
    ELSE node.right.name

RECURSIVE getFullTypeSignature(_)
\* utils/typescript-utils getFullTypeSignature(node): the base name, then the
\* generic arguments between < and >, joined by a comma and a space
getFullTypeSignature(node) ==
    LET baseName ==
            IF node.typeName.type = "Identifier" THEN node.typeName.name
            ELSE IF node.typeName.type = "TSQualifiedName"
                 THEN getQualifiedTypeName(node.typeName)
            ELSE <<>>
        render(param) ==
            IF param.type = "TSLiteralType" /\ param.literal.type = "Literal"
            THEN IF param.literal.typeofValue = "string"
                 THEN <<"'">> \o param.literal.value \o <<"'">>
                 ELSE IF param.literal.value THEN <<"t","r","u","e">>
                      ELSE <<"f","a","l","s","e">>
            ELSE IF param.type = "TSTypeReference" THEN getFullTypeSignature(param)
            ELSE <<"T">>
        RECURSIVE join(_)
        join(ps) ==
            IF Len(ps) = 1 THEN render(ps[1])
            ELSE render(ps[1]) \o <<",", " ">> \o join(Tail(ps))
    IN  IF node.typeArguments # Null /\ Len(node.typeArguments.params) > 0
        THEN baseName \o <<"<">> \o join(node.typeArguments.params) \o <<">">>
        ELSE baseName

\* the outcome of a handler that throws (reading .type of undefined)
TypeError == [type |-> "TypeError"]

\* lines 72-78 and 112-120: the identifier annotating a destructured first
\* parameter, or the name found so far
ParameterTypeName(params, actualInterfaceName) ==
    IF /\ Len(params) > 0
       /\ params[1].type = "ObjectPattern"
       /\ params[1].typeAnnotation # Null
       /\ params[1].typeAnnotation.typeAnnotation.type = "TSTypeReference"
       /\ params[1].typeAnnotation.typeAnnotation.typeName.type = "Identifier"
    THEN params[1].typeAnnotation.typeAnnotation.typeName.name
    ELSE actualInterfaceName

RECURSIVE UnwrapCall(_)
\* lines 96-108: the while loop over callExpression.arguments[0]
UnwrapCall(callExpression) ==
    IF Len(callExpression.arguments) = 0 THEN TypeError
    ELSE LET firstArg == callExpression.arguments[1] IN
         IF firstArg.type \in {"ArrowFunctionExpression", "FunctionExpression"}
         THEN firstArg
         ELSE IF firstArg.type = "CallExpression" THEN UnwrapCall(firstArg)
         ELSE Null

RECURSIVE ForwardRefTypeName_KeepFound(_, _)
\* mutant: a name found on the parameter is kept
ForwardRefTypeName_KeepFound(callExpression, actualInterfaceName) ==
    IF /\ callExpression.callee.type = "Identifier"
       /\ callExpression.callee.name = <<"f","o","r","w","a","r","d","R","e","f">>
       /\ callExpression.typeArguments # Null
       /\ Len(callExpression.typeArguments.params) >= 2
    THEN LET propsTypeParam == callExpression.typeArguments.params[2] IN
         IF /\ propsTypeParam.type = "TSTypeReference"
            /\ propsTypeParam.typeName.type = "Identifier"
            /\ actualInterfaceName = <<>>
         THEN propsTypeParam.typeName.name
         ELSE actualInterfaceName
    ELSE IF Len(callExpression.arguments) > 0
            /\ callExpression.arguments[1].type = "CallExpression"
         THEN ForwardRefTypeName_KeepFound(callExpression.arguments[1], actualInterfaceName)
    ELSE actualInterfaceName

RECURSIVE ForwardRefTypeName(_, _)
\* lines 125-146: the while loop searching for forwardRef<Ref, Props>
ForwardRefTypeName(callExpression, actualInterfaceName) ==
    IF /\ callExpression.callee.type = "Identifier"
       /\ callExpression.callee.name = <<"f","o","r","w","a","r","d","R","e","f">>
       /\ callExpression.typeArguments # Null
       /\ Len(callExpression.typeArguments.params) >= 2
    THEN LET propsTypeParam == callExpression.typeArguments.params[2] IN
         IF propsTypeParam.type = "TSTypeReference"
            /\ propsTypeParam.typeName.type = "Identifier"
         THEN propsTypeParam.typeName.name
         ELSE actualInterfaceName
    ELSE IF Len(callExpression.arguments) > 0
            /\ callExpression.arguments[1].type = "CallExpression"
         THEN ForwardRefTypeName(callExpression.arguments[1], actualInterfaceName)
    ELSE actualInterfaceName

\* mutant: the outermost identifier of the type argument is always taken
VariableTypeName_Outermost(node, actualInterfaceName) ==
    IF /\ node.type = "VariableDeclarator" /\ node.id.type = "Identifier"
       /\ node.id.typeAnnotation # Null
       /\ node.id.typeAnnotation.typeAnnotation.type = "TSTypeReference"
       /\ node.id.typeAnnotation.typeAnnotation.typeArguments # Null
       /\ Len(node.id.typeAnnotation.typeAnnotation.typeArguments.params) > 0
       /\ node.id.typeAnnotation.typeAnnotation.typeArguments.params[1].type = "TSTypeReference"
       /\ node.id.typeAnnotation.typeAnnotation.typeArguments.params[1].typeName.type
             = "Identifier"
    THEN node.id.typeAnnotation.typeAnnotation.typeArguments.params[1].typeName.name
    ELSE actualInterfaceName

\* lines 151-175: the type argument of the variable's own annotation
VariableTypeName(node, actualInterfaceName) ==
    IF /\ node.type = "VariableDeclarator" /\ node.id.type = "Identifier"
       /\ node.id.typeAnnotation # Null
       /\ node.id.typeAnnotation.typeAnnotation.type = "TSTypeReference"
       /\ node.id.typeAnnotation.typeAnnotation.typeArguments # Null
       /\ Len(node.id.typeAnnotation.typeAnnotation.typeArguments.params) > 0
       /\ node.id.typeAnnotation.typeAnnotation.typeArguments.params[1].type = "TSTypeReference"
    THEN LET firstTypeParam == node.id.typeAnnotation.typeAnnotation.typeArguments.params[1]
             interfaceNames == findInterfaceNamesInTypeReference(firstTypeParam)
             suffixes == {<<"P","r","o","p","s">>, <<"O","p","t","i","o","n","s">>,
                          <<"C","o","n","f","i","g">>, <<"S","e","t","t","i","n","g","s">>}
             propsLike == {k \in DOMAIN interfaceNames :
                             \E x \in suffixes : endsWith(interfaceNames[k], x)}
         IN  IF propsLike # {}
             THEN interfaceNames[CHOOSE k \in propsLike : \A m \in propsLike : k <= m]
             ELSE IF actualInterfaceName = NoName /\ firstTypeParam.typeName.type = "Identifier"
                  THEN firstTypeParam.typeName.name
             ELSE actualInterfaceName
    ELSE actualInterfaceName

\* lines 68-175: actualInterfaceName when the report is decided; thrown when
\* the first loop reads arguments[0].type of a call without arguments
ResolveInterfaceName(componentNode) ==
    IF componentNode.type = "FunctionDeclaration"
    THEN [thrown |-> FALSE, name |-> ParameterTypeName(componentNode.params, NoName)]
    ELSE IF componentNode.init = Null
         THEN [thrown |-> FALSE, name |-> VariableTypeName(componentNode, NoName)]
    ELSE LET init == componentNode.init
             functionNode ==
                 IF init.type \in {"ArrowFunctionExpression", "FunctionExpression"} THEN init
                 ELSE IF init.type = "CallExpression" /\ Len(init.arguments) > 0
                      THEN UnwrapCall(init)
                 ELSE Null
             fromParameter ==
                 IF functionNode # Null THEN ParameterTypeName(functionNode.params, NoName)
                 ELSE NoName
             fromForwardRef ==
                 IF init.type = "CallExpression" THEN ForwardRefTypeName(init, fromParameter)
                 ELSE fromParameter
         IN  IF functionNode = TypeError THEN [thrown |-> TRUE, name |-> NoName]
             ELSE [thrown |-> FALSE, name |-> VariableTypeName(componentNode, fromForwardRef)]

PropsSuffix == <<"P","r","o","p","s">>
ComponentSuffix == <<"C","o","m","p","o","n","e","n","t">>
FunctionComponentSuffix == <<"F","u","n","c","t","i","o","n">> \o ComponentSuffix

\* componentName.replace(/(?:Function)?Component$/, '')
StripComponentSuffix(componentName) ==
    IF endsWith(componentName, FunctionComponentSuffix)
    THEN DropLast(componentName, Len(FunctionComponentSuffix))
    ELSE IF endsWith(componentName, ComponentSuffix)
         THEN DropLast(componentName, Len(ComponentSuffix))
    ELSE componentName

\* mutant: only the full expected name is accepted
baseExpectedName_Full(componentName) == componentName \o PropsSuffix

\* lines 57-66
baseExpectedName(componentName) ==
    IF endsWith(componentName, ComponentSuffix)
    THEN StripComponentSuffix(componentName) \o PropsSuffix
    ELSE componentName \o PropsSuffix

\* checkComponentPropsInterface(componentNode, componentName): the reports
\* after the call, and whether it threw
checkComponentPropsInterface(nid, componentNode, componentName) ==
    LET fullExpectedName == componentName \o PropsSuffix
        resolved == ResolveInterfaceName(componentNode)
        actualInterfaceName == resolved.name
    IN  IF resolved.thrown THEN [thrown |-> TRUE, reports |-> reports]
        ELSE IF /\ actualInterfaceName # NoName
                /\ actualInterfaceName # fullExpectedName
                /\ actualInterfaceName # baseExpectedName(componentName)
             THEN [thrown |-> FALSE,
                   reports |->
                      Append(reports,
                             [messageId |-> "incorrectPropsInterfaceName", node |-> nid,
                              data |-> [actual |-> actualInterfaceName,
                                        component |-> componentName,
                                        expected |-> fullExpectedName]])]
        ELSE [thrown |-> FALSE, reports |-> reports]

\* FunctionDeclaration(node) and VariableDeclarator(node): the same body.
\* pc = 0 after a handler has thrown: the lint run is over.
PropInterfaceVisit(type) ==
    /\ rule = "component-prop-interface-naming"
    /\ pc \in DOMAIN input
    /\ input[pc].type = type
    /\ LET after == IF isComponentFunction(input[pc])
                       /\ extractComponentName(input[pc]) # NoName
                    THEN checkComponentPropsInterface(pc, input[pc],
                                                      extractComponentName(input[pc]))
                    ELSE [thrown |-> FALSE, reports |-> reports]
       IN  /\ pc' = IF after.thrown THEN 0 ELSE pc + 1
           /\ lastVisited' = [callback |-> type, index |-> pc, thrown |-> after.thrown]
           /\ reports' = after.reports
    /\ UNCHANGED <<rule, input, checkedNodes, derivedConditionals, variableNodes,
                   usedAsEventHandlers, allFunctions>>

PropInterfaceFunctionDeclaration == PropInterfaceVisit("FunctionDeclaration")
PropInterfaceVariableDeclarator == PropInterfaceVisit("VariableDeclarator")

\* component names over the pieces U, Function, Component, and lowercase ones
ComponentNames ==
    LET U == <<"U">>
        F == <<"F","u","n","c","t","i","o","n">>
        C == ComponentSuffix
    IN  {U, C, U \o C, F \o C, U \o F \o C, U \o C \o C, C \o U, U \o F,
         <<"u">>, <<"u">> \o C}

\* names of interfaces and type aliases
InterfaceNames ==
    {n \o PropsSuffix : n \in ComponentNames \cup {<<>>}}
      \cup {<<"U","O","p","t","i","o","n","s">>, <<"W","r","a","p">>}

TypeRef(name, args) ==
    [type |-> "TSTypeReference", typeName |-> Id(name),
     typeArguments |-> IF args = <<>> THEN Null ELSE [params |-> args]]

\* the declarations of a component named n whose props type is named a
ComponentDeclarations(n, a) ==
    LET ParameterLists(x) ==
            LET annotation(t) == [type |-> "TSTypeAnnotation", typeAnnotation |-> t]
                pattern(t) == [type |-> "ObjectPattern", typeAnnotation |-> t]
                qualified ==
                    [type |-> "TSTypeReference",
                     typeName |-> [type |-> "TSQualifiedName",
                                   left |-> Id(<<"R","e","a","c","t">>),
                                   right |-> Id(<<"C","o","m","p","o","n","e","n","t">>
                                                  \o PropsSuffix)],
                     typeArguments |->
                        [params |-> <<[type |-> "TSLiteralType",
                                       literal |-> StrLit(<<"d","i","v">>)]>>]]
            IN  {<<>>, <<pattern(Null)>>, <<pattern(annotation([type |-> "TSTypeLiteral"]))>>,
                 <<pattern(annotation(TypeRef(x, <<>>)))>>,
                 <<pattern(annotation(qualified))>>,
                 <<[type |-> "Identifier", name |-> <<"p">>,
                    typeAnnotation |-> annotation(TypeRef(x, <<>>))]>>,
                 <<pattern(Null), pattern(annotation(TypeRef(x, <<>>)))>>}
        arrow(ps) == [type |-> "ArrowFunctionExpression", params |-> ps]
        call(name, typeArgs, args) ==
            [type |-> "CallExpression", callee |-> Id(name), arguments |-> args,
             typeArguments |-> IF typeArgs = <<>> THEN Null ELSE [params |-> typeArgs]]
        memo == <<"m","e","m","o">>
        forwardRef == <<"f","o","r","w","a","r","d","R","e","f">>
        other == <<"U","O","p","t","i","o","n","s">>
        variable(t, init) ==
            [type |-> "VariableDeclarator", init |-> init,
             id |-> [type |-> "Identifier", name |-> n, typeAnnotation |-> t]]
        typed(t) == [type |-> "TSTypeAnnotation",
                     typeAnnotation |-> TypeRef(<<"F","C">>, t)]
        inits ==
            {arrow(ps) : ps \in ParameterLists(a)}
              \cup {[type |-> "FunctionExpression", params |-> ps] : ps \in ParameterLists(a)}
              \cup {call(memo, <<>>, <<arrow(ps)>>) : ps \in ParameterLists(a)}
              \cup {call(memo, <<>>, <<call(forwardRef, <<>>, <<arrow(ps)>>)>>) :
                      ps \in ParameterLists(a)}
              \cup {call(memo, <<>>, <<call(forwardRef, <<TypeRef(<<"R">>, <<>>), t>>,
                                            <<arrow(ps)>>)>>) :
                      ps \in ParameterLists(other),
                      t \in {TypeRef(a, <<>>), [type |-> "TSTypeLiteral"]}}
              \cup {Null, IdA, call(memo, <<>>, <<IdA>>), call(memo, <<>>, <<>>),
                    call(memo, <<>>, <<call(<<"f">>, <<>>, <<>>)>>),
                    call(memo, <<>>, <<Spread(IdA)>>)}
    IN  {[type |-> "FunctionDeclaration", id |-> Id(n), params |-> ps] :
            ps \in ParameterLists(a)}
          \cup {variable(Null, i) : i \in inits}
          \cup {variable(typed(t), i) :
                  t \in {<<>>, <<TypeRef(a, <<>>)>>, <<TypeRef(<<"W","r","a","p">>, <<TypeRef(a, <<>>)>>)>>,
                         <<TypeRef(<<"W","r","a","p">>, <<TypeRef(a, <<>>), TypeRef(other, <<>>)>>)>>,
                         <<TypeRef(a, <<TypeRef(other, <<>>)>>)>>,
                         <<[type |-> "TSTypeLiteral"]>>},
                  i \in {Null, arrow(<<>>), arrow(<<[type |-> "ObjectPattern", typeAnnotation |->
                                 [type |-> "TSTypeAnnotation", typeAnnotation |-> TypeRef(other, <<>>)]]>>),
                         call(forwardRef, <<TypeRef(<<"R">>, <<>>), TypeRef(other, <<>>)>>,
                              <<arrow(<<>>)>>),
                         call(memo, <<>>, <<call(forwardRef,
                                                 <<TypeRef(<<"R">>, <<>>), TypeRef(other, <<>>)>>,
                                                 <<>>)>>)}}

MaxComponents == 2

\* files of one declaration, and files of up to MaxComponents declarations
PropInterfaceFiles ==
    LET U == <<"U">>
        sample == {d \in ComponentDeclarations(U, U \o <<"O","p","t","i","o","n","s">>) :
                             \/ d.type = "FunctionDeclaration"
                             \/ d.id.typeAnnotation = Null /\ d.init.type = "CallExpression"
                                  /\ d.init.typeArguments = Null}
        nodes ==
            UNION {ComponentDeclarations(n, a) : n \in ComponentNames, a \in InterfaceNames}
              \cup {[type |-> "FunctionDeclaration", id |-> Null, params |-> <<>>],
                    [type |-> "VariableDeclarator", id |-> [type |-> "ObjectPattern"],
                     init |-> IdA]}
    IN  {<<d>> : d \in nodes}
          \cup UNION {[1..k -> sample] : k \in 2..MaxComponents}

InitPropInterface ==
    /\ rule = "component-prop-interface-naming"
    /\ input \in PropInterfaceFiles
    /\ pc = 1
    /\ lastVisited = [callback |-> "none", index |-> 0]
    /\ reports = <<>>
    /\ checkedNodes = {}
    /\ derivedConditionals = {}
    /\ variableNodes = <<>>
    /\ usedAsEventHandlers = {}
    /\ allFunctions = <<>>

NextPropInterface == PropInterfaceFunctionDeclaration \/ PropInterfaceVariableDeclarator

SpecPropInterface == InitPropInterface /\ [][NextPropInterface]_vars

(***************************************************************************)
(* Claims on the prop-interface rule                                       *)
(***************************************************************************)
\* the declarations handed to a callback so far
VisitedDeclarations == {k \in DOMAIN input : k <= lastVisited.index}

DeclaredName(d) ==
    IF d.type = "FunctionDeclaration" THEN (IF d.id = Null THEN <<>> ELSE d.id.name)
    ELSE IF d.id.type = "Identifier" THEN d.id.name ELSE <<>>

\* the parameters of the declared function when it is declared directly
\* (function declaration, arrow function or function expression initializer)
DirectParameters(d) ==
    IF d.type = "FunctionDeclaration" THEN d.params
    ELSE IF d.init.type \in {"ArrowFunctionExpression", "FunctionExpression"}
         THEN d.init.params
    ELSE <<>>

\* a directly declared function with no type on the variable itself
DirectDeclaration(d) ==
    \/ d.type = "FunctionDeclaration"
    \/ /\ d.id.type = "Identifier" /\ d.id.typeAnnotation = Null
       /\ d.init.type \in {"ArrowFunctionExpression", "FunctionExpression"}

\* no parameter, an untyped first parameter, or an inline object-literal type
NoNamedParameterType(d) ==
    /\ DirectDeclaration(d)
    /\ \/ DirectParameters(d) = <<>>
       \/ DirectParameters(d)[1].typeAnnotation = Null
       \/ DirectParameters(d)[1].typeAnnotation.typeAnnotation.type = "TSTypeLiteral"

\* the destructured first parameter is annotated with the type named a
NamedParameterType(d, a) ==
    /\ DirectDeclaration(d)
    /\ DirectParameters(d) # <<>>
    /\ DirectParameters(d)[1].type = "ObjectPattern"
    /\ DirectParameters(d)[1].typeAnnotation # Null
    /\ DirectParameters(d)[1].typeAnnotation.typeAnnotation = TypeRef(a, <<>>)

\* a is N + Props, or N ends in Component and a is N without its trailing
\* FunctionComponent (or else Component) + Props
AcceptedName(n, a) ==
    \/ a = n \o PropsSuffix
    \/ \E x \in {SubSeq(n, 1, k) : k \in 0..Len(n)} :
          /\ a = x \o PropsSuffix
          /\ \/ n = x \o FunctionComponentSuffix
             \/ n = x \o ComponentSuffix /\ ~endsWith(n, FunctionComponentSuffix)

C6_AcceptedInterfaceNames ==
    \A k \in VisitedDeclarations :
        LET n == DeclaredName(input[k])
            resolved == ResolveInterfaceName(input[k])
        IN  /\ (StartsUpper(n) /\ ~resolved.thrown /\ resolved.name # <<>>)
               => (ReportsOn(k) = {} <=> AcceptedName(n, resolved.name))
            /\ \A r \in ReportsOn(k) :
                  /\ reports[r].data.expected = n \o PropsSuffix
                  /\ reports[r].data.expected # StripComponentSuffix(n) \o PropsSuffix
                        \/ StripComponentSuffix(n) = n

\* UFunctionComponent typed UProps is accepted, and so visited unreported
C6_Witness ==
    /\ Len(input) = 1 /\ lastVisited.index = 1
    /\ DeclaredName(input[1]) = <<"U">> \o FunctionComponentSuffix
    /\ NamedParameterType(input[1], <<"U","P","r","o","p","s">>)
    /\ reports = <<>>

(***************************************************************************)
(* rules/require-jsx-string-braces                                         *)
(***************************************************************************)
RECURSIVE decodeCharacterReferences(_)
\* Literal.value of a JSX attribute string: the text between the quotes with
\* its character references replaced (&amp; is the one the texts here use)
decodeCharacterReferences(text) ==
    IF text = <<>> THEN <<>>
    ELSE IF startsWith(text, <<"&","a","m","p",";">>)
         THEN <<"&">> \o decodeCharacterReferences(SliceFrom(text, 5))
    ELSE <<Head(text)>> \o decodeCharacterReferences(Tail(text))

\* the node the parser builds for the text of an attribute value: a quoted
\* JSX string, or braces around a string literal, a number or an identifier
parseAttributeValue(text) ==
    LET quoted(t) == Len(t) >= 2 /\ t[1] \in {"\"", "'"} /\ t[Len(t)] = t[1]
        inner(t) == SubSeq(t, 2, Len(t) - 1)
    IN  IF quoted(text)
        THEN [type |-> "Literal", typeofValue |-> "string", raw |-> text,
              value |-> decodeCharacterReferences(inner(text))]
        ELSE IF quoted(inner(text))
             THEN JSXContainer([type |-> "Literal", typeofValue |-> "string",
                                raw |-> inner(text), value |-> inner(inner(text))])
        ELSE IF \A k \in DOMAIN inner(text) : IsDigitChar(inner(text)[k])
             THEN JSXContainer([type |-> "Literal", typeofValue |-> "number",
                                raw |-> inner(text), value |-> inner(text)])
        ELSE JSXContainer(Id(inner(text)))

\* mutant: the fix always writes double quotes
fix_DoubleQuotes(nid, node) ==
    [target |-> nid,
     text |-> <<"{", "\"">> \o SubSeq(node.value.raw, 2, Len(node.value.raw) - 1)
                \o <<"\"", "}">>]

\* fix(fixer): fixer.replaceText(node.value, `{${quote}${innerValue}${quote}}`)
fix(nid, node) ==
    IF node.value # Null /\ node.value.type = "Literal"
    THEN LET quote == SubSeq(node.value.raw, 1, 1)
             innerValue == SubSeq(node.value.raw, 2, Len(node.value.raw) - 1)
         IN  [target |-> nid, text |-> <<"{">> \o quote \o innerValue \o quote \o <<"}">>]
    ELSE Null

\* JSXAttribute(node)
BracesJSXAttribute ==
    /\ rule = "require-jsx-string-braces"
    /\ pc \in DOMAIN input
    /\ LET node == input[pc]
           attributeName ==
               IF node.name.type = "JSXIdentifier" THEN node.name.name
               ELSE IF node.name.type = "JSXNamespacedName"
                    THEN node.name.namespace.name \o <<":">> \o node.name.name.name
               ELSE <<"a","t","t","r","i","b","u","t","e">>
       IN  reports' =
              IF node.value # Null /\ node.value.type = "Literal"
                 /\ node.value.typeofValue = "string"
              THEN Append(reports,
                          [messageId |-> "requireBraces", node |-> pc,
                           data |-> [attribute |-> attributeName,
                                     value |-> node.value.value],
                           fix |-> fix(pc, node)])
              ELSE reports
    /\ pc' = pc + 1
    /\ lastVisited' = [callback |-> "JSXAttribute", index |-> pc, pass |-> lastVisited.pass]
    /\ UNCHANGED <<rule, input, checkedNodes, derivedConditionals, variableNodes,
                   usedAsEventHandlers, allFunctions>>

\* the traversal is over and the fixes of its diagnostics are applied: each
\* target is replaced by the fix's text, and the new text is linted again
BracesApplyFixes ==
    /\ rule = "require-jsx-string-braces"
    /\ pc = Len(input) + 1
    /\ \E r \in DOMAIN reports : reports[r].fix # Null
    /\ input' = [k \in DOMAIN input |->
                   IF \E r \in DOMAIN reports : reports[r].fix # Null /\ reports[r].fix.target = k
                   THEN LET r == CHOOSE r \in DOMAIN reports :
                                    reports[r].fix # Null /\ reports[r].fix.target = k
                        IN  [input[k] EXCEPT !.value = parseAttributeValue(reports[r].fix.text)]
                   ELSE input[k]]
    /\ reports' = <<>>
    /\ pc' = 1
    /\ lastVisited' = [callback |-> "fix", index |-> 0, pass |-> lastVisited.pass + 1]
    /\ UNCHANGED <<rule, checkedNodes, derivedConditionals, variableNodes,
                   usedAsEventHandlers, allFunctions>>

MaxAttributes == 2

\* the texts of attribute values, and the attributes of an element
BracesAttributes ==
    LET inners(other) == {<<>>, <<"a">>, <<"a","-","b">>, <<"&","a","m","p",";">>,
                          <<"x","&","a","m","p",";","y">>, <<other>>}
        strings == {<<"\"">> \o i \o <<"\"">> : i \in inners("'")}
                     \cup {<<"'">> \o i \o <<"'">> : i \in inners("\"")}
        texts == strings \cup {<<"{">> \o t \o <<"}">> : t \in strings}
                   \cup {<<"{","x","}">>, <<"{","4","2","}">>}
        names == {JSXIdentifier(<<"i","d">>),
                  [type |-> "JSXNamespacedName", namespace |-> JSXIdentifier(<<"n">>),
                   name |-> JSXIdentifier(<<"i","d">>)]}
    IN  {JSXAttributeNode(n, parseAttributeValue(t)) : n \in names, t \in texts}
          \cup {JSXAttributeNode(n, v) : n \in names, v \in {Null, JSXElement}}

InitBraces ==
    /\ rule = "require-jsx-string-braces"
    /\ input \in UNION {[1..k -> BracesAttributes] : k \in 1..MaxAttributes}
    /\ pc = 1
    /\ lastVisited = [callback |-> "none", index |-> 0, pass |-> 1]
    /\ reports = <<>>
    /\ checkedNodes = {}
    /\ derivedConditionals = {}
    /\ variableNodes = <<>>
    /\ usedAsEventHandlers = {}
    /\ allFunctions = <<>>

NextBraces == BracesJSXAttribute \/ BracesApplyFixes

SpecBraces == InitBraces /\ [][NextBraces]_vars

(***************************************************************************)
(* Claims on the string-braces rule                                        *)
(***************************************************************************)
BareStringLiteral(attribute) ==
    attribute.value # Null /\ attribute.value.type = "Literal"

\* the attribute's name as written: name, or namespace:name
WrittenName(attribute) ==
    IF attribute.name.type = "JSXNamespacedName"
    THEN attribute.name.namespace.name \o <<":">> \o attribute.name.name.name
    ELSE attribute.name.name

eventHandlerAttributes ==
    {<<"o","n","C","l","i","c","k">>, <<"o","n","D","o","u","b","l","e","C","l","i","c","k">>,
     <<"o","n","M","o","u","s","e","D","o","w","n">>, <<"o","n","M","o","u","s","e","U","p">>,
     <<"o","n","M","o","u","s","e","O","v","e","r">>,
     <<"o","n","M","o","u","s","e","O","u","t">>,
     <<"o","n","M","o","u","s","e","E","n","t","e","r">>,
     <<"o","n","M","o","u","s","e","L","e","a","v","e">>,
     <<"o","n","M","o","u","s","e","M","o","v","e">>,
     <<"o","n","C","o","n","t","e","x","t","M","e","n","u">>,
     <<"o","n","S","u","b","m","i","t">>, <<"o","n","R","e","s","e","t">>,
     <<"o","n","I","n","p","u","t">>, <<"o","n","C","h","a","n","g","e">>,
     <<"o","n","F","o","c","u","s">>, <<"o","n","B","l","u","r">>,
     <<"o","n","S","e","l","e","c","t">>, <<"o","n","K","e","y","D","o","w","n">>,
     <<"o","n","K","e","y","U","p">>, <<"o","n","K","e","y","P","r","e","s","s">>,
     <<"o","n","L","o","a","d">>, <<"o","n","E","r","r","o","r">>,
     <<"o","n","A","b","o","r","t">>, <<"o","n","C","a","n","P","l","a","y">>,
     <<"o","n","C","a","n","P","l","a","y","T","h","r","o","u","g","h">>,
     <<"o","n","D","u","r","a","t","i","o","n","C","h","a","n","g","e">>,
     <<"o","n","E","m","p","t","i","e","d">>, <<"o","n","E","n","d","e","d">>,
     <<"o","n","L","o","a","d","e","d","D","a","t","a">>,
     <<"o","n","L","o","a","d","e","d","M","e","t","a","d","a","t","a">>,
     <<"o","n","L","o","a","d","S","t","a","r","t">>, <<"o","n","P","a","u","s","e">>,
     <<"o","n","P","l","a","y">>, <<"o","n","P","l","a","y","i","n","g">>,
     <<"o","n","P","r","o","g","r","e","s","s">>,
     <<"o","n","R","a","t","e","C","h","a","n","g","e">>, <<"o","n","S","e","e","k","e","d">>,
     <<"o","n","S","e","e","k","i","n","g">>, <<"o","n","S","t","a","l","l","e","d">>,
     <<"o","n","S","u","s","p","e","n","d">>,
     <<"o","n","T","i","m","e","U","p","d","a","t","e">>,
     <<"o","n","V","o","l","u","m","e","C","h","a","n","g","e">>,
     <<"o","n","W","a","i","t","i","n","g">>, <<"o","n","D","r","a","g">>,
     <<"o","n","D","r","a","g","E","n","d">>, <<"o","n","D","r","a","g","E","n","t","e","r">>,
     <<"o","n","D","r","a","g","E","x","i","t">>,
     <<"o","n","D","r","a","g","L","e","a","v","e">>,
     <<"o","n","D","r","a","g","O","v","e","r">>,
     <<"o","n","D","r","a","g","S","t","a","r","t">>, <<"o","n","D","r","o","p">>,
     <<"o","n","S","c","r","o","l","l">>, <<"o","n","W","h","e","e","l">>,
     <<"o","n","T","o","u","c","h","S","t","a","r","t">>,
     <<"o","n","T","o","u","c","h","M","o","v","e">>,
     <<"o","n","T","o","u","c","h","E","n","d">>,
     <<"o","n","T","o","u","c","h","C","a","n","c","e","l">>,
     <<"o","n","P","o","i","n","t","e","r","D","o","w","n">>,
     <<"o","n","P","o","i","n","t","e","r","M","o","v","e">>,
     <<"o","n","P","o","i","n","t","e","r","U","p">>,
     <<"o","n","P","o","i","n","t","e","r","C","a","n","c","e","l">>,
     <<"o","n","P","o","i","n","t","e","r","E","n","t","e","r">>,
     <<"o","n","P","o","i","n","t","e","r","L","e","a","v","e">>,
     <<"o","n","P","o","i","n","t","e","r","O","v","e","r">>,
     <<"o","n","P","o","i","n","t","e","r","O","u","t">>,
     <<"o","n","A","n","i","m","a","t","i","o","n","S","t","a","r","t">>,
     <<"o","n","A","n","i","m","a","t","i","o","n","E","n","d">>,
     <<"o","n","A","n","i","m","a","t","i","o","n","I","t","e","r","a","t","i","o","n">>,
     <<"o","n","T","r","a","n","s","i","t","i","o","n","E","n","d">>}

\* mutant: past-tense event names are kept
extractEventFromHandlerName_KeepTense(handlerName) ==
    LET unprefixed ==
            IF startsWith(handlerName, <<"h","a","n","d","l","e">>) THEN SliceFrom(handlerName, 6)
            ELSE IF startsWith(handlerName, <<"o","n">>) THEN SliceFrom(handlerName, 2)
            ELSE handlerName
        suffixes == {x \in {<<"H","a","n","d","l","e","r">>, <<"C","a","l","l","b","a","c","k">>,
              <<"F","n">>, <<"F","u","n","c","t","i","o","n">>} :
                        endsWith(unprefixed, x)}
    IN  LowerFirst(IF suffixes = {} THEN unprefixed
                   ELSE DropLast(unprefixed, Len(CHOOSE x \in suffixes : TRUE)))

extractEventFromHandlerName(handlerName) ==
    LET \* s.replace(/suffix$/, replacement)
        replaceEnd(s, suffix, replacement) ==
            IF endsWith(s, suffix) THEN DropLast(s, Len(suffix)) \o replacement ELSE s
        \* .replace(/^(handle|on)/, '')
        unprefixed ==
            IF startsWith(handlerName, <<"h","a","n","d","l","e">>) THEN SliceFrom(handlerName, 6)
            ELSE IF startsWith(handlerName, <<"o","n">>) THEN SliceFrom(handlerName, 2)
            ELSE handlerName
        \* .replace(/(Handler|Callback|Fn|Function)$/, ''): one replacement; the
        \* alternatives end differently, so at most one of them matches
        unsuffixed ==
            IF endsWith(unprefixed, <<"H","a","n","d","l","e","r">>) THEN DropLast(unprefixed, 7)
            ELSE IF endsWith(unprefixed, <<"C","a","l","l","b","a","c","k">>)
                  THEN DropLast(unprefixed, 8)
            ELSE IF endsWith(unprefixed, <<"F","n">>) THEN DropLast(unprefixed, 2)
            ELSE IF endsWith(unprefixed, <<"F","u","n","c","t","i","o","n">>)
                  THEN DropLast(unprefixed, 8)
            ELSE unprefixed
        changed == replaceEnd(unsuffixed, <<"C","h","a","n","g","e","d">>,
              <<"C","h","a","n","g","e">>)
        clicked == replaceEnd(changed, <<"C","l","i","c","k","e","d">>, <<"C","l","i","c","k">>)
        pressed == replaceEnd(clicked, <<"P","r","e","s","s","e","d">>, <<"P","r","e","s","s">>)
    IN  LowerFirst(pressed)

generateHandleEventName(eventName) == <<"h","a","n","d","l","e">> \o CapitalizeFirst(eventName)

generateOnEventName(eventName) == <<"o","n">> \o CapitalizeFirst(eventName)

isEventHandlerName(name) ==
    LET \* /^[a-z]+suffix$/
        lowersThen(suffix) ==
            /\ endsWith(name, suffix)
            /\ Len(name) > Len(suffix)
            /\ \A k \in 1..(Len(name) - Len(suffix)) : IsLowerChar(name[k])
    IN  \/ PrefixThenUpper(name, <<"o","n">>)
        \/ PrefixThenUpper(name, <<"h","a","n","d","l","e">>)
        \/ lowersThen(<<"H","a","n","d","l","e","r">>)
        \/ lowersThen(<<"C","a","l","l","b","a","c","k">>)
        \/ lowersThen(<<"F","n">>)

\* isEventHandlerParameter(node.params[0]): /^(e|event|evt)$/
hasEventHandlerParameters(node) ==
    /\ Len(node.params) > 0
    /\ node.params[1].type = "Identifier"
    /\ node.params[1].name \in {<<"e">>, <<"e","v","e","n","t">>, <<"e","v","t">>}

\* node is the annotated type, Null when the property has no annotation
looksLikeFunctionType(propertyName, node) ==
    LET isFunctionType ==
            \/ node.type = "TSFunctionType"
            \/ /\ node.type = "TSTypeReference"
               /\ node.typeName.type = "Identifier"
               /\ \E p \in {<<"F","u","n","c","t","i","o","n">>,
                     <<"C","a","l","l","b","a","c","k">>, <<"H","a","n","d","l","e","r">>} :
                     startsWith(node.typeName.name, p)
    IN  IF node = Null THEN FALSE
        ELSE IF isFunctionType THEN TRUE
        ELSE \/ PrefixThenUpper(propertyName, <<"o","n">>)
             \/ PrefixThenUpper(propertyName, <<"h","a","n","d","l","e">>)
             \/ endsWith(propertyName, <<"H","a","n","d","l","e","r">>)
             \/ endsWith(propertyName, <<"C","a","l","l","b","a","c","k">>)
             \/ endsWith(propertyName, <<"C","h","a","n","g","e","d">>)

(***************************************************************************)
(* rules/consistent-event-handler-naming                                   *)
(***************************************************************************)
\* mutant: the uses in JSX event attributes are not consulted
checkInternalEventHandler_NameOnly(nid, name) ==
    IF startsWith(name, <<"h","a","n","d","l","e">>) /\ PrefixThenUpper(name,
          <<"h","a","n","d","l","e">>) THEN <<>>
    ELSE IF isEventHandlerName(name)
         THEN << [messageId |-> "incorrectHandlerNaming", node |-> nid,
                  data |-> [actual |-> name, context |-> "internal",
                            expected |->
                               generateHandleEventName(extractEventFromHandlerName(name))]] >>
    ELSE <<>>

\* checkInternalEventHandler(node, name): the diagnostics it reports
checkInternalEventHandler(nid, name) ==
    IF startsWith(name, <<"h","a","n","d","l","e">>) /\ PrefixThenUpper(name,
          <<"h","a","n","d","l","e">>) THEN <<>>
    ELSE IF isEventHandlerName(name) \/ name \in usedAsEventHandlers
         THEN << [messageId |-> "incorrectHandlerNaming", node |-> nid,
                  data |-> [actual |-> name, context |-> "internal",
                            expected |->
                               generateHandleEventName(extractEventFromHandlerName(name))]] >>
    ELSE <<>>

\* checkEventHandlerProp(node, name): the diagnostics it reports
checkEventHandlerProp(nid, name) ==
    LET isHandlerProp ==
            \/ isEventHandlerName(name)
            \/ \E suffix \in {<<"C","h","a","n","g","e","d">>, <<"C","l","i","c","k","e","d">>,
                  <<"P","r","e","s","s","e","d">>, <<"E","n","t","e","r","e","d">>,
                        <<"L","e","f","t">>} :
                  endsWith(name, suffix)
    IN  IF startsWith(name, <<"o","n">>) /\ PrefixThenUpper(name, <<"o","n">>) THEN <<>>
        ELSE IF isHandlerProp
             THEN << [messageId |-> "incorrectHandlerNaming", node |-> nid,
                      data |-> [actual |-> name, context |-> "prop",
                                expected |->
                                   generateOnEventName(extractEventFromHandlerName(name))]] >>
        ELSE <<>>

\* allFunctions.set(name, node): a key already in the Map keeps its place
allFunctionsSet(name, nid) ==
    IF \E k \in DOMAIN allFunctions : allFunctions[k].name = name
    THEN [k \in DOMAIN allFunctions |->
            IF allFunctions[k].name = name THEN [name |-> name, node |-> nid]
            ELSE allFunctions[k]]
    ELSE Append(allFunctions, [name |-> name, node |-> nid])

\* FunctionDeclaration(node)
HandlerFunctionDeclaration ==
    /\ rule = "consistent-event-handler-naming"
    /\ pc \in DOMAIN input
    /\ input[pc].type = "FunctionDeclaration"
    /\ allFunctions' = IF input[pc].id # Null /\ input[pc].id.name # <<>>
                       THEN allFunctionsSet(input[pc].id.name, pc)
                       ELSE allFunctions
    /\ pc' = pc + 1
    /\ lastVisited' = [callback |-> "FunctionDeclaration", index |-> pc]
    /\ UNCHANGED <<rule, input, reports, checkedNodes, derivedConditionals, variableNodes,
                   usedAsEventHandlers>>

\* JSXAttribute(node)
HandlerJSXAttribute ==
    /\ rule = "consistent-event-handler-naming"
    /\ pc \in DOMAIN input
    /\ input[pc].type = "JSXAttribute"
    /\ usedAsEventHandlers' =
          IF /\ input[pc].name.type = "JSXIdentifier"
             /\ input[pc].name.name \in eventHandlerAttributes
             /\ input[pc].value # Null
             /\ input[pc].value.type = "JSXExpressionContainer"
             /\ input[pc].value.expression.type = "Identifier"
          THEN usedAsEventHandlers \cup {input[pc].value.expression.name}
          ELSE usedAsEventHandlers
    /\ pc' = pc + 1
    /\ lastVisited' = [callback |-> "JSXAttribute", index |-> pc]
    /\ UNCHANGED <<rule, input, reports, checkedNodes, derivedConditionals, variableNodes,
                   allFunctions>>

RECURSIVE forEachFunction(_)
\* allFunctions.forEach from entry k on: the diagnostics reported
forEachFunction(k) ==
    IF k > Len(allFunctions) THEN <<>>
    ELSE LET node == input[allFunctions[k].node]
             shouldCheck ==
                 IF node.type = "FunctionDeclaration"
                 THEN \/ isEventHandlerName(node.id.name)
                      \/ hasEventHandlerParameters(node)
                      \/ node.id.name \in usedAsEventHandlers
                 ELSE IF node.init.type \in {"ArrowFunctionExpression", "FunctionExpression"}
                      THEN \/ isEventHandlerName(node.id.name)
                           \/ hasEventHandlerParameters(node.init)
                           \/ node.id.name \in usedAsEventHandlers
                 ELSE IF /\ Len(node.init.arguments) > 0
                         /\ node.init.arguments[1].type
                               \in {"ArrowFunctionExpression", "FunctionExpression"}
                      THEN \/ isEventHandlerName(node.id.name)
                           \/ hasEventHandlerParameters(node.init.arguments[1])
                           \/ node.id.name \in usedAsEventHandlers
                 ELSE FALSE
         IN  (IF shouldCheck
              THEN checkInternalEventHandler(allFunctions[k].node, node.id.name)
              ELSE <<>>) \o forEachFunction(k + 1)

\* 'Program:exit'()
HandlerProgramExit ==
    /\ rule = "consistent-event-handler-naming"
    /\ pc = Len(input) + 1
    /\ reports' = reports \o forEachFunction(1)
    /\ pc' = pc + 1
    /\ lastVisited' = [callback |-> "Program:exit", index |-> 0]
    /\ UNCHANGED <<rule, input, checkedNodes, derivedConditionals, variableNodes,
                   usedAsEventHandlers, allFunctions>>

\* TSMethodSignature(node)
HandlerTSMethodSignature ==
    /\ rule = "consistent-event-handler-naming"
    /\ pc \in DOMAIN input
    /\ input[pc].type = "TSMethodSignature"
    /\ reports' = IF input[pc].key.type = "Identifier"
                  THEN reports \o checkEventHandlerProp(pc, input[pc].key.name)
                  ELSE reports
    /\ pc' = pc + 1
    /\ lastVisited' = [callback |-> "TSMethodSignature", index |-> pc]
    /\ UNCHANGED <<rule, input, checkedNodes, derivedConditionals, variableNodes,
                   usedAsEventHandlers, allFunctions>>

\* TSPropertySignature(node)
HandlerTSPropertySignature ==
    /\ rule = "consistent-event-handler-naming"
    /\ pc \in DOMAIN input
    /\ input[pc].type = "TSPropertySignature"
    /\ reports' =
          IF /\ input[pc].key.type = "Identifier"
             /\ looksLikeFunctionType(input[pc].key.name,
                                      IF input[pc].typeAnnotation = Null THEN Null
                                      ELSE input[pc].typeAnnotation.typeAnnotation)
          THEN reports \o checkEventHandlerProp(pc, input[pc].key.name)
          ELSE reports
    /\ pc' = pc + 1
    /\ lastVisited' = [callback |-> "TSPropertySignature", index |-> pc]
    /\ UNCHANGED <<rule, input, checkedNodes, derivedConditionals, variableNodes,
                   usedAsEventHandlers, allFunctions>>

\* VariableDeclarator(node)
HandlerVariableDeclarator ==
    /\ rule = "consistent-event-handler-naming"
    /\ pc \in DOMAIN input
    /\ input[pc].type = "VariableDeclarator"
    /\ allFunctions' = IF /\ input[pc].id.type = "Identifier"
                          /\ input[pc].init # Null
                          /\ \/ input[pc].init.type
                                   \in {"ArrowFunctionExpression", "FunctionExpression"}
                             \/ /\ input[pc].init.type = "CallExpression"
                                /\ input[pc].init.callee.type = "Identifier"
                                /\ input[pc].init.callee.name = <<"u","s","e","C","a","l","l","b","a","c","k">>
                       THEN allFunctionsSet(input[pc].id.name, pc)
                       ELSE allFunctions
    /\ pc' = pc + 1
    /\ lastVisited' = [callback |-> "VariableDeclarator", index |-> pc]
    /\ UNCHANGED <<rule, input, reports, checkedNodes, derivedConditionals, variableNodes,
                   usedAsEventHandlers>>

MaxHandlerNodes == 2

\* files of one node over every name, and files of up to MaxHandlerNodes
\* nodes over the names clickHandler, submit and inputChanged
HandlerFiles ==
    LET names ==
            ({p \o m \o s :
                p \in {<<>>, <<"h","a","n","d","l","e">>, <<"o","n">>},
                m \in {<<>>, <<"c","l","i","c","k">>, <<"i","n","p","u","t">>,
                      <<"I","n","p","u","t">>},
                s \in {<<>>, <<"H","a","n","d","l","e","r">>,
                      <<"C","a","l","l","b","a","c","k">>, <<"F","n">>,
                            <<"F","u","n","c","t","i","o","n">>, <<"C","h","a","n","g","e","d">>,
                       <<"C","l","i","c","k","e","d">>, <<"P","r","e","s","s","e","d">>,
                             <<"E","n","t","e","r","e","d">>, <<"L","e","f","t">>}}
               \cup {<<"h","a","n","d","l","e","r">>, <<"o","n","l","i","n","e">>,
                     <<"s","u","b","m","i","t">>,
                           <<"c","l","i","c","k","h","a","n","d","l","e","r">>, <<"x">>,
                                 <<"c","l","i","c","k","F","n","H","a","n","d","l","e","r">>,
                     <<"o","n","C","l","i","c","k","e","d","C","a","l","l","b","a","c","k">>,
                           <<"h","a","n","d","l","e","o","n","l","i","n","e">>,
                                 <<"c","h","a","n","g","e","d","H","a","n","d","l","e","r">>}) \ {<<>>}
        arrow(ps) == [type |-> "ArrowFunctionExpression", params |-> ps]
        event == <<Id(<<"e","v","e","n","t">>)>>
        inits == {arrow(<<>>), arrow(event), arrow(<<[type |-> "ObjectPattern"]>>),
                  [type |-> "FunctionExpression", params |-> <<>>],
                  [type |-> "FunctionExpression", params |-> <<Id(<<"e">>)>>],
                  Call(Id(<<"u","s","e","C","a","l","l","b","a","c","k">>), <<arrow(<<>>), IdA>>),
                  Call(Id(<<"u","s","e","C","a","l","l","b","a","c","k">>),
                        <<arrow(<<Id(<<"e","v","t">>)>>), IdA>>),
                  Call(Id(<<"u","s","e","C","a","l","l","b","a","c","k">>), <<IdA>>),
                        Call(Id(<<"u","s","e","C","a","l","l","b","a","c","k">>), <<>>),
                  Call(IdF, <<arrow(event)>>), IdA, Null}
        annotation(t) == [type |-> "TSTypeAnnotation", typeAnnotation |-> t]
        named(n) == [type |-> "TSTypeReference", typeName |-> Id(n)]
        annotations ==
            {Null, annotation([type |-> "TSFunctionType"]),
             annotation([type |-> "TSStringKeyword"]),
             annotation(named(<<"H","a","n","d","l","e","r","O","f">>)),
                   annotation(named(<<"P","r","o","p","s">>)),
             annotation([type |-> "TSTypeReference",
                         typeName |-> [type |-> "TSQualifiedName"]])}
        nodes(n) ==
            {[type |-> "FunctionDeclaration", id |-> Id(n), params |-> ps] :
                ps \in {<<>>, event}}
              \cup {[type |-> "VariableDeclarator", id |-> Id(n), init |-> i] : i \in inits}
              \cup {JSXAttributeNode(a, v) :
                      a \in {JSXIdentifier(<<"o","n","C","l","i","c","k">>),
                            JSXIdentifier(<<"t","i","t","l","e">>),
                             JSXIdentifier(n)},
                      v \in {JSXContainer(Id(n)), JSXContainer(arrow(<<>>)), Null}}
              \cup {[type |-> "TSPropertySignature", key |-> Id(n), typeAnnotation |-> t] :
                      t \in annotations}
              \cup {[type |-> "TSMethodSignature", key |-> Id(n)]}
        others ==
            {[type |-> "FunctionDeclaration", id |-> Null, params |-> <<>>],
             [type |-> "VariableDeclarator", id |-> [type |-> "ObjectPattern"],
              init |-> arrow(<<>>)],
             JSXAttributeNode([type |-> "JSXNamespacedName",
                               namespace |-> JSXIdentifier(<<"x">>),
                               name |-> JSXIdentifier(<<"o","n","C","l","i","c","k">>)],
                                     JSXContainer(IdA)),
             [type |-> "TSPropertySignature", key |-> [type |-> "Literal"],
              typeAnnotation |-> annotation([type |-> "TSFunctionType"])],
             [type |-> "TSMethodSignature", key |-> [type |-> "Literal"]]}
        sample ==
            {d \in nodes(<<"c","l","i","c","k","H","a","n","d","l","e","r">>)
                  \cup nodes(<<"s","u","b","m","i","t">>) :
                \/ d.type \in {"FunctionDeclaration", "TSMethodSignature"}
                \/ d.type = "VariableDeclarator"
                     /\ d.init \in {arrow(<<>>),
                           Call(Id(<<"u","s","e","C","a","l","l","b","a","c","k">>),
                                 <<arrow(<<>>), IdA>>)}
                \/ d.type = "JSXAttribute" /\ d.name.name \in {<<"o","n","C","l","i","c","k">>,
                      <<"t","i","t","l","e">>}
                     /\ d.value # Null /\ d.value.expression.type = "Identifier"
                \/ d.type = "TSPropertySignature" /\ d.typeAnnotation # Null
                     /\ d.typeAnnotation.typeAnnotation.type = "TSFunctionType"}
              \cup {[type |-> "TSPropertySignature",
                    key |-> Id(<<"i","n","p","u","t","C","h","a","n","g","e","d">>),
                     typeAnnotation |-> annotation([type |-> "TSFunctionType"])]}
    IN  {<<d>> : d \in others \cup UNION {nodes(n) : n \in names}}
          \cup UNION {[1..k -> sample] : k \in 2..MaxHandlerNodes}

InitHandler ==
    /\ rule = "consistent-event-handler-naming"
    /\ input \in HandlerFiles
    /\ pc = 1
    /\ lastVisited = [callback |-> "none", index |-> 0]
    /\ reports = <<>>
    /\ checkedNodes = {}
    /\ derivedConditionals = {}
    /\ variableNodes = <<>>
    /\ usedAsEventHandlers = {}
    /\ allFunctions = <<>>

NextHandler ==
    \/ HandlerFunctionDeclaration
    \/ HandlerJSXAttribute
    \/ HandlerProgramExit
    \/ HandlerTSMethodSignature
    \/ HandlerTSPropertySignature
    \/ HandlerVariableDeclarator

SpecHandler == InitHandler /\ [][NextHandler]_vars

(***************************************************************************)
(* Claims on the event-handler rule                                        *)
(***************************************************************************)
\* the name n without x at its start (at its end), n itself when x is not there
WithoutLeading(n, x) ==
    IF \E t \in {SubSeq(n, i, Len(n)) : i \in 1..(Len(n) + 1)} : n = x \o t
    THEN CHOOSE t \in {SubSeq(n, i, Len(n)) : i \in 1..(Len(n) + 1)} : n = x \o t
    ELSE n
WithoutTrailing(n, x) ==
    IF \E t \in {SubSeq(n, 1, i) : i \in 0..Len(n)} : n = t \o x
    THEN CHOOSE t \in {SubSeq(n, 1, i) : i \in 0..Len(n)} : n = t \o x
    ELSE n

\* the identifier without a leading handle or on, then without a trailing
\* Handler, Callback, Fn or Function, then with a trailing Changed, Clicked or
\* Pressed in the present tense
ClaimedEvent(n) ==
    LET a == IF WithoutLeading(n, <<"h","a","n","d","l","e">>) # n THEN WithoutLeading(n,
          <<"h","a","n","d","l","e">>)
             ELSE WithoutLeading(n, <<"o","n">>)
        trailing == {x \in {<<"H","a","n","d","l","e","r">>, <<"C","a","l","l","b","a","c","k">>,
              <<"F","n">>, <<"F","u","n","c","t","i","o","n">>} :
                        WithoutTrailing(a, x) # a}
        b == IF trailing = {} THEN a ELSE WithoutTrailing(a, CHOOSE x \in trailing : TRUE)
        rewrite(s, past, present) ==
            IF WithoutTrailing(s, past) # s THEN WithoutTrailing(s, past) \o present ELSE s
    IN  rewrite(rewrite(rewrite(b, <<"C","h","a","n","g","e","d">>, <<"C","h","a","n","g","e">>),
          <<"C","l","i","c","k","e","d">>, <<"C","l","i","c","k">>),
                <<"P","r","e","s","s","e","d">>, <<"P","r","e","s","s">>)

\* C7: every diagnostic's expected name is handle (context internal, reported
\* on a stored function) or on (context prop, reported on an interface or
\* type property) followed by the capitalized event of the actual name, the
\* event being the name without a leading handle/on, without a trailing
\* Handler/Callback/Fn/Function and with Changed/Clicked/Pressed rewritten to
\* Change/Click/Press; clickHandler gives handleClick and onClick,
\* inputChanged gives onInputChange.
C7_ExpectedHandlerName ==
    \A r \in DOMAIN reports :
        LET d == reports[r].data
            node == input[reports[r].node]
        IN  /\ d.context \in {"internal", "prop"}
            /\ d.context = "internal"
                 <=> node.type \in {"FunctionDeclaration", "VariableDeclarator"}
            /\ d.context = "prop"
                 <=> node.type \in {"TSPropertySignature", "TSMethodSignature"}
            /\ d.actual = IF d.context = "internal" THEN node.id.name ELSE node.key.name
            /\ d.expected = (IF d.context = "internal" THEN <<"h","a","n","d","l","e">>
                  ELSE <<"o","n">>)
                               \o CapitalizeFirst(ClaimedEvent(d.actual))
            /\ (d.actual = <<"c","l","i","c","k","H","a","n","d","l","e","r">> /\ d.context = "internal")
                  => d.expected = <<"h","a","n","d","l","e","C","l","i","c","k">>
            /\ (d.actual = <<"c","l","i","c","k","H","a","n","d","l","e","r">> /\ d.context = "prop") => d.expected = <<"o","n","C","l","i","c","k">>
            /\ (d.actual = <<"i","n","p","u","t","C","h","a","n","g","e","d">> /\ d.context = "prop")
                  => d.expected = <<"o","n","I","n","p","u","t","C","h","a","n","g","e">>

\* function clickHandler() {} and the property inputChanged: () => void have
\* been reported with handleClick and onInputChange
C7_Witness ==
    /\ pc = Len(input) + 2
    /\ \E r \in DOMAIN reports :
          /\ reports[r].data.actual = <<"c","l","i","c","k","H","a","n","d","l","e","r">>
          /\ reports[r].data.context = "internal"
          /\ reports[r].data.expected = <<"h","a","n","d","l","e","C","l","i","c","k">>
    /\ \E r \in DOMAIN reports :
          /\ reports[r].data.actual = <<"i","n","p","u","t","C","h","a","n","g","e","d">>
          /\ reports[r].data.context = "prop"
          /\ reports[r].data.expected = <<"o","n","I","n","p","u","t","C","h","a","n","g","e">>

\* the function a stored declaration holds: the declaration itself, the
\* initializer, or the first argument of useCallback (Null when there is none)
StoredFunction(node) ==
    IF node.type = "FunctionDeclaration" THEN node
    ELSE IF node.init.type \in {"ArrowFunctionExpression", "FunctionExpression"}
         THEN node.init
    ELSE IF Len(node.init.arguments) > 0
              /\ node.init.arguments[1].type
                    \in {"ArrowFunctionExpression", "FunctionExpression"}
         THEN node.init.arguments[1]
    ELSE Null

\* the name is reported as an internal handler
ReportedInternal(name) ==
    \E r \in DOMAIN reports :
        reports[r].data.context = "internal" /\ reports[r].data.actual = name

\* C22 as stated: after Program:exit a stored function whose name is not
\* handle then an uppercase letter is reported exactly when it has one of the
\* three signals: its name is the value of a JSX event attribute, its first
\* parameter is named e, event or evt, or its name matches a handler pattern.
C22_EachSignalSufficient ==
    pc = Len(input) + 2 =>
        \A k \in DOMAIN allFunctions :
            LET name == allFunctions[k].name
                fn == StoredFunction(input[allFunctions[k].node])
            IN  (fn # Null /\ ~PrefixThenUpper(name, <<"h","a","n","d","l","e">>))
                   => (ReportedInternal(name)
                         <=> \/ name \in usedAsEventHandlers
                             \/ hasEventHandlerParameters(fn)
                             \/ isEventHandlerName(name))

\* the same with the parameter signal left out: the name is reported exactly
\* when it is used in a JSX event attribute or matches a handler pattern
C22_ParameterSignalIgnored ==
    pc = Len(input) + 2 =>
        \A k \in DOMAIN allFunctions :
            LET name == allFunctions[k].name
                fn == StoredFunction(input[allFunctions[k].node])
            IN  (fn # Null /\ ~PrefixThenUpper(name, <<"h","a","n","d","l","e">>))
                   => (ReportedInternal(name)
                         <=> \/ name \in usedAsEventHandlers
                             \/ isEventHandlerName(name))

(***************************************************************************)
(* Claims on the type name the prop-interface rule resolves                *)
(***************************************************************************)
\* the destructured first parameter of a directly declared function is
\* annotated with a qualified type reference
QualifiedParameterType(d) ==
    /\ DirectDeclaration(d)
    /\ DirectParameters(d) # <<>>
    /\ DirectParameters(d)[1].type = "ObjectPattern"
    /\ DirectParameters(d)[1].typeAnnotation # Null
    /\ DirectParameters(d)[1].typeAnnotation.typeAnnotation.type = "TSTypeReference"
    /\ DirectParameters(d)[1].typeAnnotation.typeAnnotation.typeName.type = "TSQualifiedName"

\* C23: a visited component whose destructured first parameter is annotated
\* with a qualified type reference is reported with actual = the rendered
\* signature of the annotation (the dotted name, then its generic arguments,
\* string literals in single quotes) and expected = the component name +
\* Props: ({ ... }: React.ComponentProps<'div'>) gives
\* React.ComponentProps<'div'>.
C23_QualifiedSignatureReported ==
    \A k \in VisitedDeclarations :
        (StartsUpper(DeclaredName(input[k])) /\ QualifiedParameterType(input[k]))
           => \E r \in ReportsOn(k) :
                 /\ reports[r].data.actual =
                       getFullTypeSignature(
                          DirectParameters(input[k])[1].typeAnnotation.typeAnnotation)
                 /\ reports[r].data.actual =
                       <<"R","e","a","c","t",".">> \o ComponentSuffix \o PropsSuffix
                          \o <<"<","'","d","i","v","'",">">>
                 /\ reports[r].data.expected = DeclaredName(input[k]) \o PropsSuffix

\* what the rule does with such a parameter: nothing is reported
C23_QualifiedParameterIgnored ==
    \A k \in VisitedDeclarations :
        QualifiedParameterType(input[k]) => ReportsOn(k) = {}

\* the name each supported shape of a variable declaration yields by itself
\* (<<>> when it yields none): the annotation of the destructured first
\* parameter of the function found by unwrapping, the generic argument on the
\* variable's own annotation, the second generic argument of forwardRef
ShapeNames(d) ==
    LET fn == IF d.init.type \in {"ArrowFunctionExpression", "FunctionExpression"} THEN d.init
              ELSE IF d.init.type = "CallExpression" /\ Len(d.init.arguments) > 0
                   THEN UnwrapCall(d.init)
              ELSE Null
    IN  [parameter |-> IF fn \in {Null, TypeError} THEN <<>>
                       ELSE ParameterTypeName(fn.params, <<>>),
         variable |-> VariableTypeName(d, <<>>),
         \* the variable's generic argument holds a props-like identifier
         propsLike |-> IF VariableTypeName(d, <<"?">>) = <<"?">> THEN <<>>
                       ELSE VariableTypeName(d, <<"?">>),
         forwardRef |-> IF d.init.type = "CallExpression"
                        THEN ForwardRefTypeName(d.init, <<>>) ELSE <<>>]

\* the first name of the sequence that is not empty
FirstName(names) ==
    IF \E i \in DOMAIN names : names[i] # <<>>
    THEN names[CHOOSE i \in DOMAIN names :
                  names[i] # <<>> /\ \A j \in 1..(i - 1) : names[j] = <<>>]
    ELSE <<>>

\* visited component variables for which more than one shape yields a name
SeveralShapes ==
    {k \in VisitedDeclarations :
        /\ input[k].type = "VariableDeclarator"
        /\ StartsUpper(DeclaredName(input[k]))
        /\ input[k].init # Null
        /\ Cardinality({s \in {"parameter", "variable", "forwardRef"} :
                           ShapeNames(input[k])[s] # <<>>}) > 1}

\* the declaration is validated against the name a: no diagnostic when a is
\* accepted, one diagnostic with actual = a otherwise
ValidatedAgainst(k, a) ==
    IF AcceptedName(DeclaredName(input[k]), a) THEN ReportsOn(k) = {}
    ELSE /\ Cardinality(ReportsOn(k)) = 1
         /\ \A r \in ReportsOn(k) : reports[r].data.actual = a

\* C24 as stated: when more than one shape yields a name, the declaration is
\* validated against the parameter annotation if there is one, else against
\* the variable's generic argument, else against forwardRef's generic argument.
C24_ParameterFirst ==
    \A k \in SeveralShapes :
        LET s == ShapeNames(input[k])
        IN  ValidatedAgainst(k, FirstName(<<s.parameter, s.variable, s.forwardRef>>))

\* C24 amended: when more than one shape yields a name, the declaration is
\* validated against a props-like identifier of the variable's generic
\* argument if there is one, else against forwardRef's generic argument, else
\* against the parameter annotation; when the resolver raises (a nested call
\* without arguments) nothing is reported.
C24_LaterShapeFirst ==
    \A k \in SeveralShapes :
        LET s == ShapeNames(input[k])
        IN  IF k = lastVisited.index /\ lastVisited.thrown THEN ReportsOn(k) = {}
            ELSE ValidatedAgainst(k, FirstName(<<s.propsLike, s.forwardRef, s.parameter,
                                                 s.variable>>))

\* const U = memo(forwardRef<R, Props>(({ ... }: UOptions) => ...)) has been
\* reported with actual = Props, and const U: FC<Props> = ({ ... }: UOptions)
\* => ... with actual = Props
C24_Witness ==
    /\ Len(input) = 1 /\ lastVisited.index = 1
    /\ 1 \in SeveralShapes
    /\ ShapeNames(input[1]).parameter = <<"U","O","p","t","i","o","n","s">>
    /\ \/ ShapeNames(input[1]).forwardRef = PropsSuffix
       \/ ShapeNames(input[1]).propsLike = PropsSuffix
    /\ Len(reports) = 1
    /\ reports[1].data.actual = PropsSuffix

\* the first generic type argument of the variable's own type annotation when
\* it is a type reference, Null otherwise
GenericArgument(d) ==
    IF /\ d.type = "VariableDeclarator" /\ d.id.type = "Identifier"
       /\ d.id.typeAnnotation # Null
       /\ d.id.typeAnnotation.typeAnnotation.type = "TSTypeReference"
       /\ d.id.typeAnnotation.typeAnnotation.typeArguments # Null
       /\ Len(d.id.typeAnnotation.typeAnnotation.typeArguments.params) > 0
       /\ d.id.typeAnnotation.typeAnnotation.typeArguments.params[1].type = "TSTypeReference"
    THEN d.id.typeAnnotation.typeAnnotation.typeArguments.params[1]
    ELSE Null

\* the identifiers of a type reference in pre-order: its own, then those of
\* its type arguments from left to right
IdentifiersPreOrder(typeRef) ==
    LET RECURSIVE ofRef(_), ofArgs(_)
        ofRef(t) ==
            IF t.type # "TSTypeReference" THEN <<>>
            ELSE (IF t.typeName.type = "Identifier" THEN <<t.typeName.name>> ELSE <<>>)
                   \o (IF t.typeArguments = Null THEN <<>> ELSE ofArgs(t.typeArguments.params))
        ofArgs(ts) == IF ts = <<>> THEN <<>> ELSE ofRef(Head(ts)) \o ofArgs(Tail(ts))
    IN  ofRef(typeRef)

PropsLike(name) ==
    \E x \in {PropsSuffix, <<"O","p","t","i","o","n","s">>, <<"C","o","n","f","i","g">>,
              <<"S","e","t","t","i","n","g","s">>} : endsWith(name, x)

\* C25: for a visited component variable whose own type annotation carries a
\* type reference as first generic argument (the resolver not raising), the
\* resolved name is the first identifier, in pre-order over that argument and
\* its nested arguments, that ends in Props, Options, Config or Settings; the
\* argument's own identifier is resolved only when there is none (and no
\* other shape yielded a name): FC<Wrap<UOptions>> resolves UOptions.
C25_FirstPropsLikeIdentifier ==
    \A k \in VisitedDeclarations :
        LET d == input[k]
            arg == GenericArgument(d)
            ids == IdentifiersPreOrder(arg)
            first == FirstName([i \in DOMAIN ids |-> IF PropsLike(ids[i]) THEN ids[i] ELSE <<>>])
            resolved == ResolveInterfaceName(d)
        IN  (StartsUpper(DeclaredName(d)) /\ arg # Null /\ ~resolved.thrown)
               => /\ first # <<>>
                       => resolved.name = first /\ ValidatedAgainst(k, first)
                  /\ (first = <<>> /\ ShapeNames(d).parameter = <<>>
                        /\ ShapeNames(d).forwardRef = <<>> /\ ids # <<>>)
                       => resolved.name = ids[1] /\ ValidatedAgainst(k, ids[1])
                  /\ (resolved.name = ids[1] /\ ~PropsLike(ids[1])) => first = <<>>

\* const U: FC<Wrap<UOptions>> = ... has been reported with actual = UOptions
C25_Witness ==
    /\ Len(input) = 1 /\ lastVisited.index = 1
    /\ StartsUpper(DeclaredName(input[1]))
    /\ GenericArgument(input[1]) # Null
    /\ IdentifiersPreOrder(GenericArgument(input[1]))
          = <<<<"W","r","a","p">>, <<"U","O","p","t","i","o","n","s">>>>
    /\ Len(reports) = 1
    /\ reports[1].data.actual = <<"U","O","p","t","i","o","n","s">>

\* C26: the resolver never raises: every visit of a capitalized variable
\* declaration, whatever the nesting of calls in its initializer and also
\* when a nested call has no arguments, ends with a name or with no decision.
C26_ResolverNeverRaises ==
    \A k \in VisitedDeclarations :
        (input[k].type = "VariableDeclarator" /\ StartsUpper(DeclaredName(input[k])))
           => /\ ~ResolveInterfaceName(input[k]).thrown
              /\ k = lastVisited.index => ~lastVisited.thrown

(***************************************************************************)
(* utils/jsx-utils: containsJSX on node graphs                             *)
(***************************************************************************)
\* Here `input` is a heap of nodes: input[n] has a type and its enumerable
\* fields in `for ... in` order; a field value is a node (by its index), an
\* array of values, null, or an object that is not a node.

\* mutant: the parent link is followed like any other field
SkippedKey_None(key) == FALSE

\* if (key === 'parent') continue
SkippedKey(key) == key = "parent"

RECURSIVE containsJSXVisited(_, _)
\* containsJSX(node, visited): the returned value and the Set `visited` (in
\* insertion order) after the call
containsJSXVisited(node, visited) ==
    LET has(v, n) == \E i \in DOMAIN v : v[i] = n
        RECURSIVE some(_, _, _)
        \* value.some(item => item && typeof item === 'object' && 'type' in item
        \*                    && containsJSX(item, visited)) from item k on
        some(items, k, v) ==
            IF k > Len(items) THEN [result |-> FALSE, visited |-> v]
            ELSE IF items[k].kind = "node"
                 THEN LET r == containsJSXVisited(items[k].ref, v)
                      IN  IF r.result THEN r ELSE some(items, k + 1, r.visited)
            ELSE some(items, k + 1, v)
        RECURSIVE forIn(_, _, _)
        \* for (const key in node) from field k on
        forIn(fields, k, v) ==
            IF k > Len(fields) THEN [result |-> FALSE, visited |-> v]
            ELSE IF SkippedKey(fields[k].key) THEN forIn(fields, k + 1, v)
            ELSE IF fields[k].value.kind = "array"
                 THEN LET r == some(fields[k].value.items, 1, v)
                      IN  IF r.result THEN r ELSE forIn(fields, k + 1, r.visited)
            ELSE IF fields[k].value.kind = "node"
                 THEN LET r == containsJSXVisited(fields[k].value.ref, v)
                      IN  IF r.result THEN r ELSE forIn(fields, k + 1, r.visited)
            ELSE forIn(fields, k + 1, v)
    IN  IF has(visited, node) THEN [result |-> FALSE, visited |-> visited]
        ELSE IF input[node].type = "JSXElement" \/ input[node].type = "JSXFragment"
             THEN [result |-> TRUE, visited |-> Append(visited, node)]
        ELSE forIn(input[node].fields, 1, Append(visited, node))

\* containsJSX(node) called on node pc with a fresh Set
ContainsJSXCall ==
    /\ rule = "containsJSX"
    /\ lastVisited.index = 0
    /\ pc \in DOMAIN input
    /\ LET r == containsJSXVisited(pc, <<>>)
       IN  lastVisited' = [callback |-> "containsJSX", index |-> pc,
                           result |-> r.result, visited |-> r.visited]
    /\ UNCHANGED <<rule, input, pc, reports, checkedNodes, derivedConditionals,
                   variableNodes, usedAsEventHandlers, allFunctions>>

MaxGraphNodes == 2

\* heaps of MaxGraphNodes nodes: identifiers and JSX nodes without children,
\* nodes with one child field, nodes with an array of two children; every
\* node with a parent link or none, any node being a possible target
NodeGraphs ==
    LET nodes == 1..MaxGraphNodes
        NodeValue(n) == [kind |-> "node", ref |-> n]
        ArrayValue(items) == [kind |-> "array", items |-> items]
        NullValue == [kind |-> "null"]
        \* loc: an object without a `type` property
        PlainObject == [kind |-> "object"]
        field(k, v) == [key |-> k, value |-> v]
        common(p) == <<field("loc", PlainObject), field("parent", p)>>
        parents == {NullValue} \cup {NodeValue(n) : n \in nodes}
        shapes ==
            {[type |-> t, fields |-> common(p)] :
                t \in {"Identifier", "JSXElement", "JSXFragment"}, p \in parents}
              \cup {[type |-> "UnaryExpression",
                     fields |-> <<field("argument", NodeValue(a))>> \o common(p)] :
                      a \in nodes, p \in parents}
              \cup {[type |-> "ArrayExpression",
                     fields |-> <<field("elements",
                                        ArrayValue(<<NodeValue(a), NullValue, NodeValue(b)>>))>>
                                  \o common(p)] :
                      a \in nodes, b \in nodes, p \in parents}
    IN  [nodes -> shapes]

InitContainsJSX ==
    /\ rule = "containsJSX"
    /\ input \in NodeGraphs
    /\ pc \in DOMAIN input
    /\ lastVisited = [callback |-> "none", index |-> 0]
    /\ reports = <<>>
    /\ checkedNodes = {}
    /\ derivedConditionals = {}
    /\ variableNodes = <<>>
    /\ usedAsEventHandlers = {}
    /\ allFunctions = <<>>

NextContainsJSX == ContainsJSXCall

SpecContainsJSX == InitContainsJSX /\ [][NextContainsJSX]_vars

(***************************************************************************)
(* Claims on containsJSX                                                   *)
(***************************************************************************)
\* the nodes a node refers to through its fields other than parent
Successors(n) ==
    LET values == {input[n].fields[k].value :
                      k \in {i \in DOMAIN input[n].fields : input[n].fields[i].key # "parent"}}
        direct == {v.ref : v \in {w \in values : w.kind = "node"}}
        inArrays == UNION {{v.items[i].ref : i \in {j \in DOMAIN v.items :
                                                       v.items[j].kind = "node"}} :
                             v \in {w \in values : w.kind = "array"}}
    IN  direct \cup inArrays

\* the nodes reachable from n through fields other than parent, n included
ReachableFrom(n) ==
    LET RECURSIVE closure(_)
        closure(S) ==
            LET T == S \cup UNION {Successors(m) : m \in S}
            IN  IF T = S THEN S ELSE closure(T)
    IN  closure({n})

\* C27: a call of containsJSX on any node graph (back-references and shared
\* children included) returns; it has entered each node at most once and only
\* nodes reachable from the start node through fields other than parent; it
\* returns true exactly when a JSXElement or JSXFragment is among those nodes.
C27_ContainsJSXOnGraphs ==
    lastVisited.callback = "containsJSX" =>
        LET v == lastVisited.visited
            reachable == ReachableFrom(lastVisited.index)
        IN  /\ \A i, j \in DOMAIN v : v[i] = v[j] => i = j
            /\ \A i \in DOMAIN v : v[i] \in reachable
            /\ lastVisited.result
                 <=> \E n \in reachable : input[n].type \in {"JSXElement", "JSXFragment"}

\* a call on a node whose two array elements are itself and whose only link
\* to a JSX node is its parent has returned false after entering one node
C27_Witness ==
    /\ lastVisited.callback = "containsJSX"
    /\ input[lastVisited.index].type = "ArrayExpression"
    /\ Successors(lastVisited.index) = {lastVisited.index}
    /\ \E k \in DOMAIN input[lastVisited.index].fields :
          LET f == input[lastVisited.index].fields[k]
          IN  /\ f.key = "parent" /\ f.value.kind = "node"
              /\ input[f.value.ref].type = "JSXElement"
    /\ lastVisited.visited = <<lastVisited.index>>
    /\ ~lastVisited.result

(***************************************************************************)
(* Further claims on the event-handler rule                                *)
(***************************************************************************)
\* C28: every diagnostic's expected name satisfies the convention it is
\* reported against and differs from the actual name: handle then an
\* uppercase letter with context internal, on then an uppercase letter with
\* context prop; names made of a prefix and a suffix only (onHandler) included.
C28_ExpectedSatisfiesConvention ==
    \A r \in DOMAIN reports :
        LET d == reports[r].data
        IN  /\ d.expected # d.actual
            /\ d.context = "internal"
                 => PrefixThenUpper(d.expected, <<"h","a","n","d","l","e">>)
            /\ d.context = "prop" => PrefixThenUpper(d.expected, <<"o","n">>)

\* the same for the names that keep an event once prefix and suffix are off
C28_ConventionWhenEventLeft ==
    \A r \in DOMAIN reports :
        LET d == reports[r].data
        IN  ClaimedEvent(d.actual) # <<>>
              => /\ d.expected # d.actual
                 /\ d.context = "internal"
                      => PrefixThenUpper(d.expected, <<"h","a","n","d","l","e">>)
                 /\ d.context = "prop" => PrefixThenUpper(d.expected, <<"o","n">>)

(***************************************************************************)
(* Further claims on the derived-conditional rule                          *)
(***************************************************************************)
\* the step visits the node input'[Len(input')]: the derived names only grow,
\* and a name is new only when the node is a declarator of that name with a
\* derived initializer
DerivedNamesGrow ==
    LET node == input'[Len(input')]
    IN  /\ derivedConditionals \subseteq derivedConditionals'
        /\ \A n \in derivedConditionals' \ derivedConditionals :
              /\ lastVisited'.callback = "VariableDeclarator"
              /\ node.type = "VariableDeclarator" /\ node.id.type = "Identifier"
              /\ node.id.name = n
              /\ node.init # Null /\ isComplexDerivedExpression(node.init)

\* the diagnostic against the most recently visited derived declaration of
\* the name, the visits so far being those of `input`
OnLatestDeclaration(name) ==
    [messageId |-> "derivedConditionalShouldStartWithUnderscore",
     node |-> CHOOSE m \in DerivedDeclarations(name, Len(input) + 1) :
                 \A k \in DerivedDeclarations(name, Len(input) + 1) : k <= m,
     data |-> [name |-> name, suggested |-> <<"_">> \o name]]

\* C29 as stated: the derived names only grow, a name enters them only at
\* the visit of a declarator with a derived initializer; the visit of an
\* identifier with no derived declaration of its name before it reports
\* nothing, and the visit of an identifier in gating position after one
\* reports against the identifier of the most recently visited derived
\* declaration of the name.
C29_ReportedAfterDeclaration ==
    [][LET node == input'[Len(input')]
       IN  /\ DerivedNamesGrow
           /\ (node.type = "Identifier"
                 /\ DerivedDeclarations(node.name, Len(input) + 1) = {})
                => reports' = reports
           /\ (node.type = "Identifier" /\ Gating(node)
                 /\ DerivedDeclarations(node.name, Len(input) + 1) # {})
                => reports' = Append(reports, OnLatestDeclaration(node.name))]_vars

\* C29 amended: as C29, the gating identifier being reported when its name
\* does not start with `_`; for a name that starts with `_` nothing is
\* reported.
C29_ReportedUnlessUnderscore ==
    [][LET node == input'[Len(input')]
       IN  /\ DerivedNamesGrow
           /\ (node.type = "Identifier"
                 /\ DerivedDeclarations(node.name, Len(input) + 1) = {})
                => reports' = reports
           /\ (node.type = "Identifier" /\ Gating(node)
                 /\ DerivedDeclarations(node.name, Len(input) + 1) # {})
                => reports' = IF node.name[1] = "_" THEN reports
                              ELSE Append(reports, OnLatestDeclaration(node.name))]_vars

\* two derived declarations of a name, then a gating identifier of the name:
\* the diagnostic is on the second declaration
C29_Witness ==
    /\ Len(input) = 3
    /\ input[3].type = "Identifier"
    /\ DerivedDeclarations(input[3].name, 3) = {1, 2}
    /\ Gating(input[3])
    /\ Len(reports) = 1
    /\ reports[1].node = 2

\* the name is the value of a JSX event attribute somewhere in the file
UsedInEventAttribute(name) ==
    \E k \in DOMAIN input :
        /\ input[k].type = "JSXAttribute"
        /\ input[k].name.type = "JSXIdentifier"
        /\ input[k].name.name \in eventHandlerAttributes
        /\ input[k].value # Null
        /\ input[k].value.type = "JSXExpressionContainer"
        /\ input[k].value.expression.type = "Identifier"
        /\ input[k].value.expression.name = name

\* C30: a diagnostic with context internal is added only by Program:exit,
\* when every node of the file has been handed to its callback; so, once the
\* traversal is over, whether a stored function is reported depends on its
\* name and on the file having a JSX event attribute with that name as value,
\* wherever in the file the attribute and the declaration are.
C30_InternalReportsAtExit ==
    /\ [][(\E r \in DOMAIN reports' :
              r > Len(reports) /\ reports'[r].data.context = "internal")
            => /\ lastVisited'.callback = "Program:exit"
               /\ pc = Len(input) + 1]_vars
    /\ [](pc = Len(input) + 2 =>
            \A k \in DOMAIN allFunctions :
                LET name == allFunctions[k].name
                IN  (StoredFunction(input[allFunctions[k].node]) # Null
                       /\ ~PrefixThenUpper(name, <<"h","a","n","d","l","e">>))
                      => (ReportedInternal(name)
                            <=> (isEventHandlerName(name) \/ UsedInEventAttribute(name))))

\* <button onClick={submit} /> was visited before function submit() {}, and
\* submit has been reported
C30_Witness ==
    /\ pc = Len(input) + 2
    /\ Len(input) = 2
    /\ input[1].type = "JSXAttribute"
    /\ input[2].type = "FunctionDeclaration"
    /\ input[2].id.name = <<"s","u","b","m","i","t">>
    /\ UsedInEventAttribute(<<"s","u","b","m","i","t">>)
    /\ ReportedInternal(<<"s","u","b","m","i","t">>)

====
